---- MODULE Spec2Model ----
(***************************************************************************)
(* Model of the GitHub Repository SEO Optimizer (chenxingqiang/repo-seo).  *)
(*                                                                         *)
(* Strings are sequences of one-character strings, so that the text        *)
(* normalisation of validate_github_topic is computed character by         *)
(* character as the regular expressions of the source compute it.          *)
(*                                                                         *)
(* Specifications:                                                         *)
(*   SpecValidate  - validate_github_topic applied to bounded inputs       *)
(*   SpecGenerator - rule-based topic generation                           *)
(*   SpecReadme    - generate_readme of the providers and of the generator *)
(*   Spec          - the entry points that optimise one repository         *)
(*   SpecProviders - provider calls against a backend that answers or fails*)
(*   SpecBatch     - the batch runs of repo_seo.py and run_optimization.py *)
(*   SpecLocal     - LocalProvider called without a README                 *)
(*   SpecTwice     - LocalProvider called twice with the same arguments    *)
(*   SpecOllama    - the model OllamaProvider generates with               *)
(*   SpecTopics    - update_repo_topics applied to bounded topic lists     *)
(*   SpecHooks     - RepoManager: the git hooks of a repository            *)
(***************************************************************************)
EXTENDS Integers, Sequences, FiniteSets, TLC

VARIABLES
    pc,                  \* position of the modelled call
    topic,               \* validate_github_topic: the argument
    validated,           \* validate_github_topic(topic)
    revalidated,         \* validate_github_topic(validated)
    repo_name,           \* arguments of the generation calls
    languages,
    current_topics,
    current_description,
    readme,
    provider,            \* name of the active provider
    remote,              \* what the backend of a remote provider answers
    hash_seed,           \* hash seed of the process (order of set iteration)
    is_fork,             \* GitHub: the repository is a fork
    argv,                \* flags or keyword arguments given to the entry point
    calls,               \* the mutating gh commands issued, in order
    result,              \* outcome of the modelled call
    account,             \* batch run: the repositories listed, each with how
                         \*   GitHub and the backend behave when it is processed
    position,            \* batch run: number of repositories processed
    results,             \* batch run: the list results of main
    output,              \* batch run: content of the results file
    model,               \* OllamaProvider: the model the provider generates with
    requests,            \* OllamaProvider: the models named in the generate requests sent
    hooks                \* RepoManager: the files of the hooks directory

vars_validator == <<topic, validated, revalidated>>

vars_call == <<repo_name, languages, current_topics, current_description,
               readme, provider, remote, hash_seed>>

vars_run == <<is_fork, argv, calls>>

vars_batch == <<account, position, results, output>>

vars_objects == <<model, requests, hooks>>

vars == <<pc, vars_validator, vars_call, vars_run, result, vars_batch, vars_objects>>

(***************************************************************************)
(* Bounds                                                                  *)
(***************************************************************************)
\* longest enumerated topic text (after the optional padding)
MaxLen == 3

(***************************************************************************)
(* Characters and strings                                                  *)
(***************************************************************************)
\* Python's None, kept apart from every string of characters
None == <<"<None>">>

EmptyStr == <<>>

\* no batch run: nothing listed, nothing processed, no results file
NoBatch == account = <<>> /\ position = 0 /\ results = <<>> /\ output = None

\* no OllamaProvider is made and no hooks directory is looked at
NoObjects == model = None /\ requests = <<>> /\ hooks = <<>>

\* the character U+0060, which a TLA+ string cannot hold
Backtick == "<backtick>"

\* the character U+0022
Quote == "<quote>"

ascii_uppercase ==
    <<"A","B","C","D","E","F","G","H","I","J","K","L","M",
      "N","O","P","Q","R","S","T","U","V","W","X","Y","Z">>

ascii_lowercase ==
    <<"a","b","c","d","e","f","g","h","i","j","k","l","m",
      "n","o","p","q","r","s","t","u","v","w","x","y","z">>

LowerLetters == {ascii_lowercase[i] : i \in 1..26}

Digits == {"0","1","2","3","4","5","6","7","8","9"}

\* the characters Python's str.strip() and the regex class \s treat as blank
WhiteSpace == {" ", "\t", "\n", "\r", "\f"}

\* a sequence given as a function on 1..n, as the tuple of its elements
Tuple(f) == SubSeq(f, 1, Len(f))

\* str.lower() on one character
LowerOf ==
    [c \in {ascii_uppercase[i] : i \in 1..26} |->
        ascii_lowercase[CHOOSE i \in 1..26 : ascii_uppercase[i] = c]]

char_lower(c) == IF c \in DOMAIN LowerOf THEN LowerOf[c] ELSE c

\* str.lower()
str_lower(s) == Tuple([i \in 1..Len(s) |-> char_lower(s[i])])

SetMin(S) == CHOOSE x \in S : \A y \in S : x <= y

SetMax(S) == 0 - SetMin({0 - x : x \in S})

\* str.strip(chars): drop the characters of chars from both ends
str_strip(s, chars) ==
    LET kept(i) == s[i] \notin chars
        first == CHOOSE i \in 1..Len(s) : kept(i) /\ \A j \in 1..(i - 1) : ~kept(j)
        last == CHOOSE i \in 1..Len(s) : kept(i) /\ \A j \in (i + 1)..Len(s) : ~kept(j)
    IN  IF \A i \in 1..Len(s) : ~kept(i) THEN EmptyStr ELSE SubSeq(s, first, last)

\* the concatenation of a sequence of strings
RECURSIVE Flatten(_)
Flatten(ss) ==
    IF Len(ss) = 0 THEN <<>>
    ELSE IF Len(ss) = 1 THEN ss[1]
    ELSE LET half == Len(ss) \div 2
         IN  Flatten(SubSeq(ss, 1, half)) \o Flatten(SubSeq(ss, half + 1, Len(ss)))

\* re.sub('[chars]+', rep, s): every maximal run of chars becomes rep
re_sub_runs(s, chars, rep) ==
    Flatten([i \in 1..Len(s) |->
        IF s[i] \notin chars THEN <<s[i]>>
        ELSE IF i > 1 /\ s[i-1] \in chars THEN <<>>
        ELSE rep])

\* re.sub('[^allowed]', '', s): delete every character outside allowed
re_sub_delete_outside(s, allowed) ==
    Flatten([i \in 1..Len(s) |-> IF s[i] \in allowed THEN <<s[i]>> ELSE <<>>])

\* s[:n]
str_prefix(s, n) == SubSeq(s, 1, IF Len(s) < n THEN Len(s) ELSE n)

(***************************************************************************)
(* Text helpers shared by the providers                                    *)
(***************************************************************************)
UpperLetters == {ascii_uppercase[i] : i \in 1..26}

\* the regex class [a-zA-Z0-9]
AlnumChars == LowerLetters \cup UpperLetters \cup Digits

Range(s) == {s[i] : i \in 1..Len(s)}

\* sub in s
str_contains(s, sub) ==
    \/ sub = <<>>
    \/ \E i \in 1..(Len(s) - Len(sub) + 1) :
           s[i] = sub[1] /\ SubSeq(s, i, i + Len(sub) - 1) = sub

\* the pieces of a sequence of optional pieces: the entries with has = TRUE
Pieces(opts) ==
    LET kept == SelectSeq(opts, LAMBDA o : o.has)
    IN  Tuple([k \in 1..Len(kept) |-> kept[k].val])

\* re.findall(r'[a-zA-Z0-9]+', s): the maximal alphanumeric runs, in order
re_findall_alnum(s) ==
    LET run_end(i) == CHOOSE j \in i..Len(s) :
                          /\ \A k \in i..j : s[k] \in AlnumChars
                          /\ (j = Len(s) \/ s[j+1] \notin AlnumChars)
    IN  Pieces(Tuple([i \in 1..Len(s) |->
                   IF s[i] \in AlnumChars /\ (i = 1 \/ s[i-1] \notin AlnumChars)
                   THEN [has |-> TRUE, val |-> SubSeq(s, i, run_end(i))]
                   ELSE [has |-> FALSE, val |-> <<>>]]))

\* s.split('\n')
str_lines(s) ==
    LET line_end(p) == IF \E q \in p..Len(s) : s[q] = "\n"
                       THEN (CHOOSE q \in p..Len(s) :
                                s[q] = "\n" /\ \A k \in p..(q - 1) : s[k] # "\n") - 1
                       ELSE Len(s)
    IN  Pieces(Tuple([p \in 1..(Len(s) + 1) |->
                   IF p = 1 \/ s[p-1] = "\n"
                   THEN [has |-> TRUE, val |-> SubSeq(s, p, line_end(p))]
                   ELSE [has |-> FALSE, val |-> <<>>]]))

\* One line of the scan for '#+\s+(.+)' (anchored = FALSE) or for
\* '^(#+)\s+(.+)$' under re.MULTILINE (anchored = TRUE). mode "S": a run of
\* '#' and blanks is open from an earlier line, mode "N": none is. A run of
\* '#' opens a match when a blank follows (the newline that ends a line is
\* one); the first character that is not blank then starts the captured
\* text, which runs to the end of its line.
heading_in_line(line, mode, anchored, last) ==
    LET n == Len(line)
        nonblank(from) == {g \in from..n : line[g] \notin WhiteSpace}
        capture(from) ==
            IF nonblank(from) = {} THEN [has |-> FALSE, val |-> <<>>, out |-> "S"]
            ELSE [has |-> TRUE, val |-> SubSeq(line, SetMin(nonblank(from)), n),
                  out |-> "N"]
        run_end(i) == CHOOSE j \in i..n :
                          /\ \A k \in i..j : line[k] = "#"
                          /\ (j = n \/ line[j+1] # "#")
        opens == {i \in 1..n :
                     /\ line[i] = "#"
                     /\ (i = 1 \/ line[i-1] # "#")
                     /\ (anchored => i = 1)
                     /\ IF run_end(i) = n THEN ~last
                        ELSE line[run_end(i) + 1] \in WhiteSpace}
    IN  IF mode = "S" THEN capture(1)
        ELSE IF opens = {} THEN [has |-> FALSE, val |-> <<>>, out |-> "N"]
        ELSE capture(run_end(SetMin(opens)) + 1)

RECURSIVE headings_from_lines(_, _, _, _, _)
headings_from_lines(lines, k, mode, acc, anchored) ==
    IF k > Len(lines) THEN [found |-> acc, out |-> mode]
    ELSE LET h == heading_in_line(lines[k], mode, anchored, k = Len(lines))
         IN  headings_from_lines(lines, k + 1, h.out,
                                 IF h.has THEN Append(acc, h.val) ELSE acc, anchored)

\* the captured heading texts of a text. When the text ends in the blanks
\* after a run of '#', the regex backtracks and captures the last of these
\* blanks that is not a newline.
re_findall_headings(s, anchored) ==
    LET scan == headings_from_lines(str_lines(s), 1, "N", <<>>, anchored)
        marks == {p \in 1..Len(s) : s[p] \notin WhiteSpace}
        blanks == SubSeq(s, SetMax(marks) + 1, Len(s))
        given == {m \in 2..Len(blanks) : blanks[m] # "\n"}
    IN  IF scan.out = "S" /\ given # {}
        THEN Append(scan.found, <<blanks[SetMax(given)]>>)
        ELSE scan.found

\* the elements of a list, each once, in order of first occurrence
seq_dedupe(s) ==
    Pieces(Tuple([i \in 1..Len(s) |->
               [has |-> \A j \in 1..(i - 1) : s[j] # s[i], val |-> s[i]]]))

\* the keys of Counter(ws).most_common(n): by falling count, ties in order
\* of first occurrence
most_common(ws, n) ==
    LET uniq == seq_dedupe(ws)
        count == Tuple([k \in 1..Len(uniq) |->
                     Cardinality({i \in 1..Len(ws) : ws[i] = uniq[k]})])
        before(k) == {j \in 1..Len(uniq) :
                         \/ count[j] > count[k]
                         \/ count[j] = count[k] /\ j < k}
        sorted == Tuple([r \in 1..Len(uniq) |->
                      uniq[CHOOSE k \in 1..Len(uniq) : Cardinality(before(k)) = r - 1]])
    IN  str_prefix(sorted, n)

\* the characters of the model in code-point order
CharTable ==
    <<
      "\t","\n","\r"," ","!",Quote,"#","$","%","&","'","(",")","*","+",",","-",".","/","0","1",
      "2","3","4","5","6","7","8","9",":",";","<","=",">","?","@","A",
      "B","C","D","E","F","G","H","I","J","K","L","M","N","O","P","Q",
      "R","S","T","U","V","W","X","Y","Z","[","\\","]","^","_",Backtick,"a","b","c",
      "d","e","f","g","h","i","j","k","l","m","n","o","p","q","r","s",
      "t","u","v","w","x","y","z","{","|","}","~" >>

\* ord(c), as the place of c in that order
CharRank ==
    [c \in {CharTable[i] : i \in 1..Len(CharTable)} |->
        CHOOSE i \in 1..Len(CharTable) : CharTable[i] = c]

char_rank(c) == CharRank[c]

\* a < b for two strings, by code point
str_less(a, b) ==
    LET differ == {i \in 1..(IF Len(a) < Len(b) THEN Len(a) ELSE Len(b)) : a[i] # b[i]}
    IN  IF differ = {} THEN Len(a) < Len(b)
        ELSE char_rank(a[SetMin(differ)]) < char_rank(b[SetMin(differ)])

\* list(S) for a set of strings. The iteration order of a Python set of
\* strings depends on the hash seed of the process; hash_seed selects one of
\* the orders a process may produce.
HashSeeds == {"ascending", "descending"}

list_of_set(S, seed) ==
    LET n == Cardinality(S)
        ranked == {<<x, Cardinality({y \in S : str_less(y, x)})>> : x \in S}
        asc == Tuple([r \in 1..n |-> (CHOOSE p \in ranked : p[2] = r - 1)[1]])
    IN  IF seed = "ascending" THEN asc ELSE Tuple([r \in 1..n |-> asc[n + 1 - r]])

(***************************************************************************)
(* repo_seo.validate_github_topic                                          *)
(***************************************************************************)
\* GitHub's maximum topic length
MaxTopicLen == 35

TopicChars == LowerLetters \cup Digits \cup {"-"}

\* the strip without the lowercasing
topic_lower_strip_no_lower(t) == str_strip(t, WhiteSpace)

\* line 141: topic.lower().strip()
topic_lower_strip(t) == str_strip(str_lower(t), WhiteSpace)

\* line 149: re.sub(r'[\s_]+', '-', topic)
topic_hyphenate(t) == re_sub_runs(t, WhiteSpace \cup {"_"}, <<"-">>)

\* line 152: re.sub(r'[^a-z0-9-]', '', topic)
topic_remove_invalid(t) == re_sub_delete_outside(t, TopicChars)

\* line 155: re.sub(r'-+', '-', topic)
topic_collapse_hyphens(t) == re_sub_runs(t, {"-"}, <<"-">>)

\* line 158: topic.strip('-')
topic_strip_hyphens(t) == str_strip(t, {"-"})

\* the result returned without the cut
topic_truncate_no_cut(t) == t

\* line 165: topic[:35]
topic_truncate(t) == str_prefix(t, MaxTopicLen)

validate_github_topic(t) ==
    IF t = None \/ t = EmptyStr THEN EmptyStr
    ELSE LET t1 == topic_lower_strip(t)
         IN  IF \E i \in 1..Len(t1) : t1[i] = "," THEN EmptyStr
             ELSE LET t5 == topic_strip_hyphens(
                              topic_collapse_hyphens(
                                topic_remove_invalid(
                                  topic_hyphenate(t1))))
                  IN  IF t5 = EmptyStr \/ t5[1] \notin (LowerLetters \cup Digits)
                      THEN EmptyStr
                      ELSE topic_truncate(t5)

(***************************************************************************)
(* Rule-based topic generation                                             *)
(*   llm_providers/local_provider.py  LocalProvider.generate_topics        *)
(*   seo_generator/generator.py       generate_topics                      *)
(*   utils/analyzers_impl.py          RuleBasedTopicExtractor.extract      *)
(***************************************************************************)
\* LocalProvider.__init__: self.max_topics
LocalProvider_max_topics == 10

\* generate_topics of generator.py: max_topics
max_topics == 20

\* ['the', 'and', 'for', 'with']
name_stopwords ==
    { <<"t","h","e">>,
      <<"a","n","d">>,
      <<"f","o","r">>,
      <<"w","i","t","h">> }

\* ['the', 'and', 'for', 'with', 'this', 'that']
readme_stopwords ==
    { <<"t","h","e">>,
      <<"a","n","d">>,
      <<"f","o","r">>,
      <<"w","i","t","h">>,
      <<"t","h","i","s">>,
      <<"t","h","a","t">> }

\* ["this", "that", "with", "from", "then", "than"]
extractor_stopwords ==
    { <<"t","h","i","s">>,
      <<"t","h","a","t">>,
      <<"w","i","t","h">>,
      <<"f","r","o","m">>,
      <<"t","h","e","n">>,
      <<"t","h","a","n">> }

common_topics ==
    << <<"g","i","t","h","u","b">>,
       <<"r","e","p","o","s","i","t","o","r","y">>,
       <<"p","r","o","j","e","c","t">>,
       <<"c","o","d","e">>,
       <<"o","p","e","n","-","s","o","u","r","c","e">>,
       <<"d","e","v","e","l","o","p","m","e","n","t">>,
       <<"p","r","o","g","r","a","m","m","i","n","g">>,
       <<"s","o","f","t","w","a","r","e">>,
       <<"t","o","o","l">>,
       <<"u","t","i","l","i","t","y">>,
       <<"l","i","b","r","a","r","y">>,
       <<"f","r","a","m","e","w","o","r","k">>,
       <<"a","p","i">>,
       <<"a","p","p">>,
       <<"a","p","p","l","i","c","a","t","i","o","n">>,
       <<"a","u","t","o","m","a","t","i","o","n">>,
       <<"c","l","i">>,
       <<"c","o","m","m","a","n","d","-","l","i","n","e">>,
       <<"w","e","b">>,
       <<"d","a","t","a">>,
       <<"a","n","a","l","y","s","i","s">>,
       <<"m","a","c","h","i","n","e","-","l","e","a","r","n","i","n","g">>,
       <<"a","i">>,
       <<"d","o","c","u","m","e","n","t","a","t","i","o","n">> >>

\* the name parts added as topics
repo_name_topics(name) ==
    {part \in Range(re_findall_alnum(str_lower(name))) :
        Len(part) > 2 /\ part \notin name_stopwords}

\* the languages added as topics
language_topics(langs) == {str_lower(langs[i]) : i \in 1..Len(langs)}

\* the words of a list of heading texts
heading_words(headers) ==
    Flatten([i \in 1..Len(headers) |-> re_findall_alnum(str_lower(headers[i]))])

\* LocalProvider.generate_topics: the topics taken from the README
LocalProvider_readme_topics(text) ==
    IF text = EmptyStr THEN {}
    ELSE LET from_headers ==
                 {word \in Range(heading_words(re_findall_headings(text, FALSE))) :
                     Len(word) > 3 /\ word \notin readme_stopwords}
             common_words ==
                 SelectSeq(most_common(re_findall_alnum(str_lower(text)), 20),
                           LAMBDA word : Len(word) > 3 /\ word \notin readme_stopwords)
         IN  from_headers \cup Range(str_prefix(common_words, 5))

\* the common GitHub topics found in the README or in a current topic
relevant_common_topics(text, current) ==
    LET lowered == str_lower(text)
    IN  {common_topics[k] : k \in
            {i \in 1..Len(common_topics) :
                \/ str_contains(lowered, common_topics[i])
                \/ \E j \in 1..Len(current) : str_contains(current[j], common_topics[i])}}

\* the loop that keeps the current topics and appends new ones
RECURSIVE append_new_topics(_, _, _)
append_new_topics(kept, topics_list, limit) ==
    IF topics_list = <<>> THEN kept
    ELSE IF Head(topics_list) \notin Range(kept)
         THEN LET appended == Append(kept, Head(topics_list))
              IN  IF Len(appended) >= limit THEN appended
                  ELSE append_new_topics(appended, Tail(topics_list), limit)
         ELSE append_new_topics(kept, Tail(topics_list), limit)

\* "Ensure we don't have too many topics"
limit_topics(current, topics_list, limit) ==
    IF Len(topics_list) > limit
    THEN append_new_topics(current, topics_list, limit)
    ELSE topics_list

LocalProvider_generate_topics(name, langs, current, text, seed) ==
    LET topics == Range(current)
                    \cup repo_name_topics(name)
                    \cup language_topics(langs)
                    \cup LocalProvider_readme_topics(text)
                    \cup relevant_common_topics(text, current)
    IN  limit_topics(current, list_of_set(topics, seed), LocalProvider_max_topics)

\* re.split(r'\n\s*\n', content)[0]
first_paragraph(text) ==
    LET breaks == {i \in 1..Len(text) :
                     /\ text[i] = "\n"
                     /\ \E j \in (i + 1)..Len(text) :
                            /\ text[j] = "\n"
                            /\ \A k \in (i + 1)..(j - 1) : text[k] \in WhiteSpace}
    IN  IF breaks = {} THEN text ELSE SubSeq(text, 1, SetMin(breaks) - 1)

\* RuleBasedTopicExtractor.extract, reached through extract_topics_from_text
extract_topics_from_text(text) ==
    IF text = EmptyStr THEN <<>>
    ELSE LET keep(word) == Len(word) > 3 /\ word \notin extractor_stopwords
             from_headings ==
                 SelectSeq(heading_words(re_findall_headings(text, TRUE)), keep)
             from_first_para ==
                 SelectSeq(re_findall_alnum(str_lower(first_paragraph(text))), keep)
         IN  most_common(from_headings \o from_first_para, 10)

\* generate_topics of seo_generator/generator.py
generate_topics(name, langs, current, text, seed) ==
    LET topics == Range(current)
                    \cup repo_name_topics(name)
                    \cup language_topics(langs)
                    \cup Range(extract_topics_from_text(text))
                    \cup relevant_common_topics(text, current)
    IN  limit_topics(current, list_of_set(topics, seed), max_topics)

(***************************************************************************)
(* Outcomes of a call and replies of a remote backend                      *)
(***************************************************************************)
\* the call returned v
Returned(v) == [raised |-> "", value |-> v]

\* the call raised the exception e
Raised(e) == [raised |-> e, value |-> None]

\* A remote provider as its environment presents it: api_key says whether
\* the key the constructor looks for is set, fails whether the completion
\* request fails and error how (the connection is refused, the request
\* times out, the status is not 200), text is the completion returned
\* otherwise.
TransportErrors == {"ConnectionError", "Timeout", "status"}

NoReply == [api_key |-> FALSE, fails |-> TRUE, error |-> "ConnectionError", text |-> EmptyStr]

(***************************************************************************)
(* Text operations of the generators                                       *)
(***************************************************************************)

Letters == LowerLetters \cup UpperLetters

\* str.upper() on one character
UpperOf ==
    [c \in {ascii_lowercase[i] : i \in 1..26} |->
        ascii_uppercase[CHOOSE i \in 1..26 : ascii_lowercase[i] = c]]

char_upper(c) == IF c \in DOMAIN UpperOf THEN UpperOf[c] ELSE c

\* s.replace(old, new) for single characters
str_replace(s, old, new) ==
    Tuple([i \in 1..Len(s) |-> IF s[i] = old THEN new ELSE s[i]])

\* str.title(): a letter is upper case after a character that is no letter
\* and lower case after a letter
str_title(s) ==
    Tuple([i \in 1..Len(s) |->
        IF s[i] \notin Letters THEN s[i]
        ELSE IF i > 1 /\ s[i-1] \in Letters THEN char_lower(s[i])
        ELSE char_upper(s[i])])

\* sep.join(ss)
str_join(ss, sep) ==
    Flatten(Tuple([i \in 1..Len(ss) |-> IF i = 1 THEN ss[i] ELSE sep \o ss[i]]))

\* s.startswith(prefix)
str_startswith(s, prefix) ==
    Len(s) >= Len(prefix) /\ SubSeq(s, 1, Len(prefix)) = prefix

\* re.sub('[chars]', '', s)
re_sub_delete(s, chars) == SelectSeq(s, LAMBDA c : c \notin chars)

\* the truth value of a string or None
truthy(s) == s # None /\ s # EmptyStr

\* repo_name.replace('-', ' ').replace('_', ' ').title()
display_name(name) == str_title(str_replace(str_replace(name, "-", " "), "_", " "))

(***************************************************************************)
(* Rule-based description                                                  *)
(*   llm_providers/local_provider.py  LocalProvider.generate_description   *)
(*   seo_generator/generator.py       generate_description                 *)
(***************************************************************************)
\* LocalProvider.__init__: self.min_description_length
LocalProvider_min_description_length == 50

\* LocalProvider.__init__: self.max_description_length
LocalProvider_max_description_length == 250

\* generate_description of generator.py: the length a first line needs
first_line_min_length == 30

\* generate_description of generator.py: max_length
max_length == 250

\* the first line of the README that is not empty, not a heading and not a
\* rule, stripped; "" if there is none
readme_first_line(text) ==
    IF ~truthy(text) THEN EmptyStr
    ELSE LET lines == str_lines(str_strip(text, WhiteSpace))
             stripped == Tuple([i \in 1..Len(lines) |-> str_strip(lines[i], WhiteSpace)])
             usable == {i \in 1..Len(lines) :
                           /\ stripped[i] # EmptyStr
                           /\ ~str_startswith(stripped[i], <<"#">>)
                           /\ ~str_startswith(stripped[i], <<"-","-","-">>)}
         IN  IF usable = {} THEN EmptyStr ELSE stripped[SetMin(usable)]

\* the description built from the first line of the README, or from the
\* repository name, the languages and the topics when that line is short
rule_based_description(name, langs, tps, text, min_len, max_len) ==
    LET first_line == re_sub_delete(readme_first_line(text), {"#", "*", "_"})
        other_languages == str_join(SubSeq(langs, 2, IF Len(langs) < 3 THEN Len(langs) ELSE 3),
                                    <<",", " ">>)
        from_name ==
            IF langs # <<>>
            THEN <<"A"," ">> \o langs[1] \o <<" ","p","r","o","j","e","c","t"," ","f","o","r"," ">> \o display_name(name)
                 \o (IF Len(langs) > 1 THEN <<" ","u","s","i","n","g"," ">> \o other_languages ELSE <<>>)
            ELSE <<"A"," ","p","r","o","j","e","c","t"," ","f","o","r"," ">> \o display_name(name)
        with_topics ==
            IF tps # <<>>
            THEN from_name \o <<" ","f","o","c","u","s","e","d"," ","o","n"," ">> \o str_join(str_prefix(tps, 3), <<",", " ">>)
            ELSE from_name
        description == IF Len(first_line) >= min_len THEN first_line ELSE with_topics
    IN  IF Len(description) > max_len
        THEN SubSeq(description, 1, max_len - 3) \o <<".", ".", ".">>
        ELSE description

LocalProvider_generate_description(name, langs, tps, text) ==
    rule_based_description(name, langs, tps, text,
                           LocalProvider_min_description_length,
                           LocalProvider_max_description_length)

\* generate_description of seo_generator/generator.py
generate_description(name, langs, tps, text) ==
    rule_based_description(name, langs, tps, text, first_line_min_length, max_length)

(***************************************************************************)
(* README generation                                                       *)
(*   llm_providers/local_provider.py   LocalProvider.generate_readme       *)
(*   seo_generator/generator.py        generate_readme                     *)
(*   llm_providers/openai_provider.py, anthropic_provider.py               *)
(***************************************************************************)
\* the colors dictionary of get_language_color
language_colors ==
    << [language |-> <<"P","y","t","h","o","n">>, color |-> <<"3","7","7","6","A","B">>],
       [language |-> <<"J","a","v","a","S","c","r","i","p","t">>, color |-> <<"F","7","D","F","1","E">>],
       [language |-> <<"T","y","p","e","S","c","r","i","p","t">>, color |-> <<"3","1","7","8","C","6">>],
       [language |-> <<"J","a","v","a">>, color |-> <<"0","0","7","3","9","6">>],
       [language |-> <<"C","+","+">>, color |-> <<"0","0","5","9","9","C">>],
       [language |-> <<"C","#">>, color |-> <<"2","3","9","1","2","0">>],
       [language |-> <<"P","H","P">>, color |-> <<"7","7","7","B","B","4">>],
       [language |-> <<"R","u","b","y">>, color |-> <<"C","C","3","4","2","D">>],
       [language |-> <<"G","o">>, color |-> <<"0","0","A","D","D","8">>],
       [language |-> <<"R","u","s","t">>, color |-> <<"D","E","A","5","8","4">>],
       [language |-> <<"S","w","i","f","t">>, color |-> <<"F","A","7","3","4","3">>],
       [language |-> <<"K","o","t","l","i","n">>, color |-> <<"0","0","9","5","D","5">>],
       [language |-> <<"D","a","r","t">>, color |-> <<"0","1","7","5","C","2">>],
       [language |-> <<"H","T","M","L">>, color |-> <<"E","3","4","F","2","6">>],
       [language |-> <<"C","S","S">>, color |-> <<"1","5","7","2","B","6">>],
       [language |-> <<"S","h","e","l","l">>, color |-> <<"4","E","A","A","2","5">>] >>

\* colors.get(language, "555555")
get_language_color(language) ==
    LET hits == {i \in 1..Len(language_colors) : language_colors[i].language = language}
    IN  IF hits = {} THEN <<"5","5","5","5","5","5">> ELSE language_colors[SetMin(hits)].color

\* an existing README longer than this is returned as it is
kept_readme_length == 100

\* the number of topics listed as features
max_features == 5

\* the README template both rule-based generators fill in
readme_template(name, langs, tps, description) ==
    LET lower_langs == {str_lower(langs[i]) : i \in 1..Len(langs)}
        badge(lang) ==
            <<"!","[">> \o lang
            \o <<"]","(","h","t","t","p","s",":","/","/","i","m","g",".","s","h","i","e","l","d",
                  "s",".","i","o","/","b","a","d","g","e","/","-">> \o lang \o <<"-">>
            \o get_language_color(lang)
            \o <<"?","s","t","y","l","e","=","f","l","a","t","-","s","q","u","a","r","e","&","l","o","g","o","=">> \o str_lower(lang) \o <<")","\n">>
        languages_section ==
            IF langs # <<>>
            THEN <<"#","#"," ","L","a","n","g","u","a","g","e","s","\n","\n">>
                 \o Flatten(Tuple([i \in 1..Len(langs) |-> badge(langs[i])]))
                 \o <<"\n">>
            ELSE <<>>
        clone ==
            <<"#"," ","C","l","o","n","e"," ","t","h","e"," ","r","e","p","o","s","i","t","o",
                  "r","y","\n","g","i","t"," ","c","l","o","n","e"," ","h","t","t","p","s",":","/",
                  "/","g","i","t","h","u","b",".","c","o","m","/","u","s","e","r","n","a","m","e",
                  "/">>
            \o name \o <<".","g","i","t","\n","c","d"," ">> \o name \o <<"\n">>
        installation ==
            <<"#","#"," ","I","n","s","t","a","l","l","a","t","i","o","n","\n","\n",Backtick,Backtick,Backtick,
                  "b","a","s","h","\n">>
            \o clone
            \o (IF <<"p","y","t","h","o","n">> \in lower_langs
                THEN <<"\n","#"," ","I","n","s","t","a","l","l"," ","d","e","p","e","n","d","e","n","c",
                      "i","e","s","\n","p","i","p"," ","i","n","s","t","a","l","l"," ","-","r"," ","r",
                      "e","q","u","i","r","e","m","e","n","t","s",".","t","x","t","\n">>
                ELSE <<>>)
            \o <<Backtick,Backtick,Backtick,"\n","\n">>
        command ==
            IF <<"p","y","t","h","o","n">> \in lower_langs THEN <<"p","y","t","h","o","n"," ","m","a","i","n",".","p","y","\n">>
            ELSE IF <<"j","a","v","a","s","c","r","i","p","t">> \in lower_langs \/ <<"t","y","p","e","s","c","r","i","p","t">> \in lower_langs
                 THEN <<"n","p","m"," ","s","t","a","r","t","\n">>
            ELSE IF <<"j","a","v","a">> \in lower_langs
                 THEN <<"j","a","v","a"," ","-","j","a","r"," ">> \o name \o <<".","j","a","r","\n">>
            ELSE IF <<"g","o">> \in lower_langs THEN <<"g","o"," ","r","u","n"," ","m","a","i","n",".","g","o","\n">>
            ELSE IF <<"r","u","s","t">> \in lower_langs THEN <<"c","a","r","g","o"," ","r","u","n","\n">>
            ELSE <<"#"," ","A","d","d"," ","u","s","a","g","e"," ","i","n","s","t","r","u","c","t",
                  "i","o","n","s"," ","h","e","r","e","\n">>
        usage == <<"#","#"," ","U","s","a","g","e","\n","\n",Backtick,Backtick,Backtick,"b","a","s","h","\n">> \o command \o <<Backtick,Backtick,Backtick,"\n","\n">>
        shown == str_prefix(tps, max_features)
        features ==
            <<"#","#"," ","F","e","a","t","u","r","e","s","\n","\n">>
            \o Flatten(Tuple([i \in 1..Len(shown) |->
                   <<"-", " ">> \o display_name(shown[i]) \o <<"\n">>]))
            \o <<"\n">>
    IN  <<"#", " ">> \o display_name(name) \o <<"\n", "\n">>
        \o description \o <<"\n", "\n">>
        \o languages_section
        \o installation
        \o usage
        \o features
        \o <<"#","#"," ","C","o","n","t","r","i","b","u","t","i","n","g","\n","\n">>
        \o <<"C","o","n","t","r","i","b","u","t","i","o","n","s"," ","a","r","e"," ","w","e",
              "l","c","o","m","e","!"," ","P","l","e","a","s","e"," ","f","e","e","l"," ","f",
              "r","e","e"," ","t","o"," ","s","u","b","m","i","t"," ","a"," ","P","u","l","l",
              " ","R","e","q","u","e","s","t",".","\n","\n">>
        \o <<"#","#"," ","L","i","c","e","n","s","e","\n","\n">>
        \o <<"T","h","i","s"," ","p","r","o","j","e","c","t"," ","i","s"," ","l","i","c","e",
              "n","s","e","d"," ","u","n","d","e","r"," ","t","h","e"," ","M","I","T"," ","L",
              "i","c","e","n","s","e"," ","-"," ","s","e","e"," ","t","h","e"," ","L","I","C",
              "E","N","S","E"," ","f","i","l","e"," ","f","o","r"," ","d","e","t","a","i","l",
              "s",".","\n">>

LocalProvider_generate_readme(name, langs, tps, description, existing_readme) ==
    IF truthy(existing_readme) /\ Len(existing_readme) > kept_readme_length
    THEN existing_readme
    ELSE readme_template(name, langs, tps, description)

\* generate_readme of seo_generator/generator.py
generate_readme(name, langs, tps, description, existing_readme) ==
    IF truthy(existing_readme) /\ Len(existing_readme) > kept_readme_length
    THEN existing_readme
    ELSE readme_template(name, langs, tps, description)

\* OpenAIProvider.generate_readme: the existing README or the stripped
\* completion; the exception of a failed request propagates
OpenAIProvider_generate_readme(existing_readme, reply) ==
    IF truthy(existing_readme) /\ Len(existing_readme) > kept_readme_length
    THEN Returned(existing_readme)
    ELSE IF reply.fails THEN Raised("APIError")
    ELSE Returned(str_strip(reply.text, WhiteSpace))

\* AnthropicProvider.generate_readme
AnthropicProvider_generate_readme(existing_readme, reply) ==
    IF truthy(existing_readme) /\ Len(existing_readme) > kept_readme_length
    THEN Returned(existing_readme)
    ELSE IF reply.fails THEN Raised("APIError")
    ELSE Returned(str_strip(reply.text, WhiteSpace))

\* the description a remote provider returns is cut to n characters, the
\* last three of them dots
description_cut(description, n) ==
    IF Len(description) > n THEN SubSeq(description, 1, n - 3) \o <<".",".",".">>
    ELSE description

\* the longest description of OpenAIProvider and AnthropicProvider
remote_max_length == 250

\* OpenAIProvider.generate_description: the stripped completion, cut; the
\* exception of a failed request propagates
OpenAIProvider_generate_description(reply) ==
    IF reply.fails THEN Raised("APIError")
    ELSE Returned(description_cut(str_strip(reply.text, WhiteSpace), remote_max_length))

\* AnthropicProvider.generate_description
AnthropicProvider_generate_description(reply) ==
    IF reply.fails THEN Raised("APIError")
    ELSE Returned(description_cut(str_strip(reply.text, WhiteSpace), remote_max_length))

\* OllamaProvider._generate_completion: the response of the model, or the
\* message of the failure: a refused connection and a timeout are caught
\* where the model list is read and raised again by the generate request, a
\* status other than 200 is answered where the model list is read
OllamaProvider_generate_completion(reply) ==
    CASE reply.error = "ConnectionError" ->
           <<"E","r","r","o","r",":"," ","C","o","u","l","d"," ","n","o","t"," ","c","o","n",
                 "n","e","c","t"," ","t","o"," ","O","l","l","a","m","a"," ","A","P","I","."," ",
                 "M","a","k","e"," ","s","u","r","e"," ","O","l","l","a","m","a"," ","i","s"," ",
                 "r","u","n","n","i","n","g",".">>
      [] reply.error = "Timeout" ->
           <<"E","r","r","o","r",":"," ","R","e","q","u","e","s","t"," ","t","o"," ","O","l",
                 "l","a","m","a"," ","A","P","I"," ","t","i","m","e","d"," ","o","u","t","."," ",
                 "T","h","e"," ","m","o","d","e","l"," ","m","i","g","h","t"," ","b","e"," ","t",
                 "o","o"," ","l","a","r","g","e"," ","o","r"," ","b","u","s","y",".">>
      [] reply.error = "status" ->
           <<"E","r","r","o","r",":"," ","O","l","l","a","m","a"," ","A","P","I"," ","n","o",
                 "t"," ","a","v","a","i","l","a","b","l","e"," ","a","t"," ","h","t","t","p",":",
                 "/","/","l","o","c","a","l","h","o","s","t",":","1","1","4","3","4">>
      [] OTHER -> reply.text

\* DeepSeekProvider._generate_completion: the stripped content of the first
\* choice, or the message of the failure (the status is 500 and the body
\* of the response empty)
DeepSeekProvider_generate_completion(reply) ==
    CASE reply.error = "ConnectionError" -> <<"E","r","r","o","r",":"," ","C","o","u","l","d"," ","n","o","t"," ","c","o","n",
          "n","e","c","t"," ","t","o"," ","D","e","e","p","S","e","e","k"," ","A","P","I",
          ".">>
      [] reply.error = "Timeout" -> <<"E","r","r","o","r",":"," ","R","e","q","u","e","s","t"," ","t","o"," ","D","e",
            "e","p","S","e","e","k"," ","A","P","I"," ","t","i","m","e","d"," ","o","u","t",
            ".">>
      [] reply.error = "status" -> <<"E","r","r","o","r"," ","f","r","o","m"," ","D","e","e","p","S","e","e","k"," ",
            "A","P","I",":"," ","5","0","0"," ","-"," ">>
      [] OTHER -> str_strip(reply.text, WhiteSpace)

\* the longest description of OllamaProvider and DeepSeekProvider
completion_max_length == 160

\* OllamaProvider.generate_description
OllamaProvider_generate_description(reply) ==
    Returned(description_cut(OllamaProvider_generate_completion(reply), completion_max_length))

\* DeepSeekProvider.generate_description
DeepSeekProvider_generate_description(reply) ==
    Returned(description_cut(DeepSeekProvider_generate_completion(reply), completion_max_length))

\* s.find(c) and s.rfind(c) for a character c: the index from 0, or -1
str_find(s, c) ==
    IF c \in Range(s) THEN SetMin({i \in 1..Len(s) : s[i] = c}) - 1 ELSE 0 - 1

str_rfind(s, c) ==
    IF c \in Range(s) THEN SetMax({i \in 1..Len(s) : s[i] = c}) - 1 ELSE 0 - 1

\* s.split(sep)
RECURSIVE str_split(_, _)
str_split(s, sep) ==
    LET hits == {i \in 1..(Len(s) - Len(sep) + 1) : SubSeq(s, i, i + Len(sep) - 1) = sep}
    IN  IF hits = {} THEN <<s>>
        ELSE <<SubSeq(s, 1, SetMin(hits) - 1)>>
             \o str_split(SubSeq(s, SetMin(hits) + Len(sep), Len(s)), sep)

\* [t.strip(chars) for t in ts] and [t.lower() for t in ts]
strip_each(ts, chars) == Tuple([i \in 1..Len(ts) |-> str_strip(ts[i], chars)])

lower_each(ts) == Tuple([i \in 1..Len(ts) |-> str_lower(ts[i])])

\* [t for t in ts if t]
non_empty(ts) == SelectSeq(ts, LAMBDA t : t # EmptyStr)

\* json.loads(s) for the texts a completion carries between its first '['
\* and its last ']': an array of string literals that hold no escape, no
\* quote and no comma gives the list of their texts, any other text
\* raises JSONDecodeError
json_loads(s) ==
    LET text == str_strip(s, WhiteSpace)
        inner == str_strip(SubSeq(text, 2, Len(text) - 1), WhiteSpace)
        items == strip_each(str_split(inner, <<",">>), WhiteSpace)
        literal(t) == /\ Len(t) >= 2
                      /\ t[1] = Quote
                      /\ t[Len(t)] = Quote
                      /\ \A k \in 2..(Len(t) - 1) : t[k] \notin {Quote, "\\", "\n", "\t", "\r"}
    IN  IF Len(text) < 2 \/ text[1] # "[" \/ text[Len(text)] # "]"
        THEN Raised("JSONDecodeError")
        ELSE IF inner = EmptyStr THEN Returned(<<>>)
        ELSE IF \E k \in 1..Len(items) : ~literal(items[k]) THEN Raised("JSONDecodeError")
        ELSE Returned(Tuple([k \in 1..Len(items) |->
                                SubSeq(items[k], 2, Len(items[k]) - 1)]))

\* the most topics a remote provider returns
remote_max_topics == 20

\* OpenAIProvider.generate_topics, "Fall back to simple parsing": the
\* pieces between commas of the lines that are no heading and no bullet,
\* quotes and brackets removed
simple_parsed_line(line) ==
    IF line = EmptyStr \/ str_startswith(line, <<"#">>) \/ str_startswith(line, <<"-">>)
    THEN <<>>
    ELSE lower_each(non_empty(strip_each(
             str_split(re_sub_delete(line, {Quote, "'", "[", "]"}), <<",">>), WhiteSpace)))

simple_parsed_topics(content) ==
    LET lines == strip_each(str_lines(content), WhiteSpace)
    IN  Flatten(Tuple([k \in 1..Len(lines) |-> simple_parsed_line(lines[k])]))

\* OpenAIProvider.generate_topics when the completion holds no JSON array:
\* split by commas, or by lines when there is no comma
split_topics(content) ==
    IF "," \in Range(content)
    THEN lower_each(strip_each(str_split(content, <<",">>), WhiteSpace))
    ELSE lower_each(non_empty(strip_each(str_lines(content), WhiteSpace)))

\* the topics before duplicates are removed: parsed is json.loads of the
\* text from the first '[' to the last ']'
chat_topics_parsed(content, parsed) ==
    IF parsed.raised = "" THEN lower_each(parsed.value)
    ELSE simple_parsed_topics(content)

\* OpenAIProvider.generate_topics and AnthropicProvider.generate_topics
\* from the stripped completion on
chat_topics(content) ==
    str_prefix(seq_dedupe(
        IF str_find(content, "[") >= 0 /\ str_rfind(content, "]") + 1 > str_find(content, "[")
        THEN chat_topics_parsed(content,
                 json_loads(SubSeq(content, str_find(content, "[") + 1,
                                   str_rfind(content, "]") + 1)))
        ELSE split_topics(content)), remote_max_topics)

\* OpenAIProvider.generate_topics: the exception of a failed request
\* propagates
OpenAIProvider_generate_topics(reply) ==
    IF reply.fails THEN Raised("APIError")
    ELSE Returned(chat_topics(str_strip(reply.text, WhiteSpace)))

\* AnthropicProvider.generate_topics
AnthropicProvider_generate_topics(reply) ==
    IF reply.fails THEN Raised("APIError")
    ELSE Returned(chat_topics(str_strip(reply.text, WhiteSpace)))

\* OllamaProvider.generate_topics: the text inside a markdown code block
\* when the response has one
fenced_text(response) ==
    IF str_contains(response, <<Backtick,Backtick,Backtick,"j","s","o","n">>)
    THEN str_strip(str_split(str_split(response, <<Backtick,Backtick,Backtick,"j","s","o","n">>)[2], <<Backtick,Backtick,Backtick>>)[1], WhiteSpace)
    ELSE IF str_contains(response, <<Backtick,Backtick,Backtick>>)
    THEN str_strip(str_split(str_split(response, <<Backtick,Backtick,Backtick>>)[2], <<Backtick,Backtick,Backtick>>)[1], WhiteSpace)
    ELSE response

\* the topics read from the response: a JSON array when it has both
\* brackets, otherwise its pieces between commas
completion_topics_read(body) ==
    IF str_find(body, "[") # 0 - 1 /\ str_rfind(body, "]") # 0 - 1
    THEN json_loads(SubSeq(body, str_find(body, "[") + 1, str_rfind(body, "]") + 1))
    ELSE Returned(lower_each(strip_each(strip_each(str_split(body, <<",">>), WhiteSpace),
                                        {Quote, "'"})))

\* the topics read are combined with the current ones in a set; when they
\* cannot be read the current topics are returned
completion_topics_combined(read, current, seed) ==
    IF read.raised # "" THEN current
    ELSE str_prefix(list_of_set(Range(read.value \o current), seed), remote_max_topics)

\* OllamaProvider.generate_topics and DeepSeekProvider.generate_topics from
\* the completion on
completion_topics(response, current, seed) ==
    completion_topics_combined(completion_topics_read(fenced_text(response)), current, seed)

OllamaProvider_generate_topics(current, reply, seed) ==
    Returned(completion_topics(OllamaProvider_generate_completion(reply), current, seed))

DeepSeekProvider_generate_topics(current, reply, seed) ==
    Returned(completion_topics(DeepSeekProvider_generate_completion(reply), current, seed))

(***************************************************************************)
(* Providers                                                               *)
(*   llm_providers/__init__.py  get_provider                               *)
(***************************************************************************)
\* the providers whose modules are in the package
Providers == {"local", "openai", "anthropic", "ollama", "deepseek"}

\* the providers whose constructor raises when no API key is set
KeyedProviders == {"openai", "anthropic", "deepseek"}

\* get_provider(provider_name): the provider made, or the exception raised
get_provider(provider_name, reply) ==
    IF provider_name \notin Providers THEN Raised("ValueError")
    ELSE IF provider_name \in KeyedProviders /\ ~reply.api_key THEN Raised("ValueError")
    ELSE Returned(provider_name)

\* _PROVIDERS: the registered names in the order of their registration,
\* each with its provider class
PROVIDERS ==
    << [name |-> <<"l","o","c","a","l">>, class |-> "local"],
       [name |-> <<"o","p","e","n","a","i">>, class |-> "openai"],
       [name |-> <<"a","n","t","h","r","o","p","i","c">>, class |-> "anthropic"],
       [name |-> <<"o","l","l","a","m","a">>, class |-> "ollama"],
       [name |-> <<"d","e","e","p","s","e","e","k">>, class |-> "deepseek"] >>

\* ", ".join(_PROVIDERS.keys())
available_providers ==
    str_join(Tuple([k \in 1..Len(PROVIDERS) |-> PROVIDERS[k].name]), <<","," ">>)

\* the name get_provider looks up: provider_name.lower()
registry_key_as_given(provider_name) == provider_name

registry_key(provider_name) == str_lower(provider_name)

\* get_provider for a name known to be missing from the registry
not_supported(key) ==
    [raised |-> "ValueError", value |-> None, constructed |-> <<>>,
     message |-> <<"P","r","o","v","i","d","e","r"," ","'">> \o key \o <<"'"," ","i","s"," ","n","o","t"," ","s","u","p","p","o","r","t","e","d","."," ",
           "A","v","a","i","l","a","b","l","e"," ","p","r","o","v","i","d","e","r","s",":",
           " ">>
                 \o available_providers]

\* get_provider for the registered class: its constructor is called, and
\* what it raises is raised again
constructed_provider(class, made) ==
    [raised |-> made.raised, value |-> made.value, constructed |-> <<class>>,
     message |-> EmptyStr]

\* get_provider(provider_name) for the text of a name: the outcome, the
\* provider classes whose constructor was called and, for a name that is
\* not registered, the message of the ValueError
get_provider_by_name(provider_name, reply) ==
    LET found == {k \in 1..Len(PROVIDERS) : PROVIDERS[k].name = registry_key(provider_name)}
    IN  IF found = {} THEN not_supported(registry_key(provider_name))
        ELSE constructed_provider(PROVIDERS[SetMin(found)].class,
                 get_provider(PROVIDERS[SetMin(found)].class, reply))

\* provider.generate_description(...) for the provider made
provider_generate_description(p, name, langs, tps, text, reply) ==
    CASE p = "local" -> Returned(LocalProvider_generate_description(name, langs, tps, text))
      [] p = "openai" -> OpenAIProvider_generate_description(reply)
      [] p = "anthropic" -> AnthropicProvider_generate_description(reply)
      [] p = "ollama" -> OllamaProvider_generate_description(reply)
      [] p = "deepseek" -> DeepSeekProvider_generate_description(reply)

\* provider.generate_topics(...) for the provider made
provider_generate_topics(p, name, langs, current, text, reply, seed) ==
    CASE p = "local" -> Returned(LocalProvider_generate_topics(name, langs, current, text, seed))
      [] p = "openai" -> OpenAIProvider_generate_topics(reply)
      [] p = "anthropic" -> AnthropicProvider_generate_topics(reply)
      [] p = "ollama" -> OllamaProvider_generate_topics(current, reply, seed)
      [] p = "deepseek" -> DeepSeekProvider_generate_topics(current, reply, seed)

\* provider.generate_readme(...) for the provider made; OllamaProvider and
\* DeepSeekProvider define no generate_readme
provider_generate_readme(p, name, langs, tps, description, existing_readme, reply) ==
    CASE p = "local" ->
           Returned(LocalProvider_generate_readme(name, langs, tps, description, existing_readme))
      [] p = "openai" -> OpenAIProvider_generate_readme(existing_readme, reply)
      [] p = "anthropic" -> AnthropicProvider_generate_readme(existing_readme, reply)
      [] p \in {"ollama", "deepseek"} -> Raised("AttributeError")

(***************************************************************************)
(* seo_generator/generator.py  SEOGenerator                                *)
(***************************************************************************)
\* the try/except of the SEOGenerator methods: the provider's value, or
\* the rule-based one when the provider raised
value_or(made, fallback) == IF made.raised = "" THEN made.value ELSE fallback

\* SEOGenerator.generate_description
SEOGenerator_generate_description(p, name, langs, tps, text, reply) ==
    value_or(provider_generate_description(p, name, langs, tps, text, reply),
             generate_description(name, langs, tps, text))

\* SEOGenerator.generate_topics
SEOGenerator_generate_topics(p, name, langs, current, text, reply, seed) ==
    value_or(provider_generate_topics(p, name, langs, current, text, reply, seed),
             generate_topics(name, langs, current, text, seed))

\* SEOGenerator.generate_readme
SEOGenerator_generate_readme(p, name, langs, tps, description, existing_readme, reply) ==
    value_or(provider_generate_readme(p, name, langs, tps, description,
                                      existing_readme, reply),
             generate_readme(name, langs, tps, description, existing_readme))

\* the parameters of ContentAnalyzer.analyze_repository(self, repo_data)
analyze_repository_parameters == {"repo_data"}

\* the keywords SEOGenerator.optimize_repository passes to it
analyze_repository_keywords ==
    {"repo_name", "description", "languages", "topics", "readme"}

\* Python binds a call by keywords when every keyword names a parameter and
\* every parameter is given; otherwise the call raises TypeError
call_binds(keywords, parameters) == keywords = parameters

\* the analysis of a repository, kept as the data it is computed from
ContentAnalyzer_analyze_repository(repo_data) == [analysis_of |-> repo_data]

\* a description shorter than this is regenerated
min_kept_description == 30

\* a README shorter than this is regenerated
min_kept_readme == 100

\* SEOGenerator.optimize_repository: the dictionary returned
SEOGenerator_optimized(name, langs, current, description, text, analysis, new_description, new_topics, new_readme) ==
    Returned([name |-> name,
              languages |-> langs,
              current_description |-> description,
              new_description |-> new_description,
              current_topics |-> current,
              new_topics |-> new_topics,
              current_readme |-> text,
              new_readme |-> new_readme,
              analysis |-> analysis,
              changes |-> [description |-> new_description # description,
                           topics |-> Range(new_topics) # Range(current),
                           readme |-> new_readme # text]])

\* SEOGenerator.optimize_repository, "Generate a new README if needed"
SEOGenerator_decide_readme(p, name, langs, current, description, text, reply, analysis, new_description, new_topics) ==
    SEOGenerator_optimized(name, langs, current, description, text, analysis,
        new_description, new_topics,
        IF ~truthy(text) \/ Len(text) < min_kept_readme
        THEN SEOGenerator_generate_readme(p, name, langs, new_topics, new_description,
                                          text, reply)
        ELSE text)

\* SEOGenerator.optimize_repository: the analysis, whose call raises
\* TypeError when its keywords do not bind, then the description when the
\* current one is short, the topics and the README
SEOGenerator_optimize_repository(p, name, langs, current, description, text, reply, seed) ==
    IF ~call_binds(analyze_repository_keywords, analyze_repository_parameters)
    THEN Raised("TypeError")
    ELSE SEOGenerator_decide_readme(p, name, langs, current, description, text, reply,
             ContentAnalyzer_analyze_repository(
                 [name |-> name, description |-> description, languages |-> langs,
                  topics |-> current, readme |-> text]),
             IF ~truthy(description) \/ Len(description) < min_kept_description
             THEN SEOGenerator_generate_description(p, name, langs, current, text, reply)
             ELSE description,
             SEOGenerator_generate_topics(p, name, langs, current, text, reply, seed))

(***************************************************************************)
(* Inputs of the validator                                                 *)
(***************************************************************************)
\* one character of every class the validator tells apart
Sigma == {"a", "1", "A", "-", "_", " ", ",", "!"}

Texts(n) == UNION {[1..k -> Sigma] : k \in 0..n}

Pad(n) == Tuple([i \in 1..n |-> "a"])

\* paddings that put the enumerated text around the truncation point
PadLens == {0, MaxTopicLen - 2, MaxTopicLen - 1, MaxTopicLen}

\* the inputs of tests/test_topic_validation.py that the enumeration misses
TestTopics ==
    { None,
      <<"M","a","c","h","i","n","e"," ","L","e","a","r","n","i","n","g">>,
      <<" "," ","e","x","t","r","a"," "," ","s","p","a","c","e","s"," "," ">>,
      <<"p","y","t","h","o","n",",","j","a","v","a","s","c","r","i","p","t">>,
      <<"m","a","c","h","i","n","e","-","l","e","a","r","n","i","n","g">>,
      <<"a","p","i","_","v","2">>,
      <<"c","+","+">>,
      Pad(40) }

TopicInputs == {Pad(n) \o s : n \in PadLens, s \in Texts(MaxLen)} \cup TestTopics

(***************************************************************************)
(* SpecValidate: the validator applied once, then to its own output        *)
(***************************************************************************)
InitValidate ==
    /\ pc = "validate"
    /\ topic \in TopicInputs
    /\ validated = None
    /\ revalidated = None
    /\ repo_name = EmptyStr
    /\ languages = <<>>
    /\ current_topics = <<>>
    /\ current_description = EmptyStr
    /\ readme = EmptyStr
    /\ provider = "local"
    /\ remote = NoReply
    /\ hash_seed = "ascending"
    /\ is_fork = FALSE
    /\ argv = {}
    /\ calls = <<>>
    /\ result = Returned(None)
    /\ NoBatch
    /\ NoObjects

Validate ==
    /\ pc = "validate"
    /\ validated' = validate_github_topic(topic)
    /\ pc' = "revalidate"
    /\ UNCHANGED <<topic, revalidated, vars_call, vars_run, result, vars_batch, vars_objects>>

Revalidate ==
    /\ pc = "revalidate"
    /\ revalidated' = validate_github_topic(validated)
    /\ pc' = "validated"
    /\ UNCHANGED <<topic, validated, vars_call, vars_run, result, vars_batch, vars_objects>>

NextValidate == Validate \/ Revalidate

SpecValidate == InitValidate /\ [][NextValidate]_vars

(***************************************************************************)
(* Claims about validate_github_topic (checked under SpecValidate)         *)
(***************************************************************************)
HasValidated == pc \in {"revalidate", "validated"}

\* C4: every non-empty result of validate_github_topic matches
\* ^[a-z0-9][a-z0-9-]{0,34}$ : at most 35 characters, all of them lowercase
\* letters, digits or hyphens, the first one a letter or a digit, no comma.
C4_TopicMatchesPattern ==
    (HasValidated /\ validated # EmptyStr) =>
        /\ Len(validated) \in 1..35
        /\ validated[1] \in LowerLetters \cup Digits
        /\ \A i \in 1..Len(validated) :
               /\ validated[i] \in LowerLetters \cup Digits \cup {"-"}
               /\ validated[i] # ","

\* an over-long input with characters outside [a-z0-9-] was cut to 35
C4_Witness ==
    /\ HasValidated
    /\ Len(topic) > 35
    /\ \E i \in 1..Len(topic) : topic[i] \notin TopicChars
    /\ Len(validated) = 35

\* C5: validate_github_topic is idempotent, validating a result again
\* returns that result.
C5_Idempotent ==
    pc = "validated" => revalidated = validated

\* C6: a non-empty result of validate_github_topic has no leading hyphen,
\* no trailing hyphen and no two consecutive hyphens.
C6_NoEdgeOrDoubleHyphen ==
    (HasValidated /\ validated # EmptyStr) =>
        /\ validated[1] # "-"
        /\ validated[Len(validated)] # "-"
        /\ \A i \in 1..(Len(validated) - 1) :
               ~(validated[i] = "-" /\ validated[i+1] = "-")

\* The nine ordered steps of the Topic Validator, written as left-to-right
\* scans of the text.
RECURSIVE SquashRuns(_, _, _)
SquashRuns(s, chars, inRun) ==
    IF s = <<>> THEN <<>>
    ELSE IF Head(s) \in chars
         THEN (IF inRun THEN <<>> ELSE <<"-">>) \o SquashRuns(Tail(s), chars, TRUE)
         ELSE <<Head(s)>> \o SquashRuns(Tail(s), chars, FALSE)

RECURSIVE DropLeading(_, _)
DropLeading(s, chars) ==
    IF s # <<>> /\ Head(s) \in chars THEN DropLeading(Tail(s), chars) ELSE s

Reverse(s) == Tuple([i \in 1..Len(s) |-> s[Len(s) + 1 - i]])

Trim(s, chars) == Reverse(DropLeading(Reverse(DropLeading(s, chars)), chars))

NineSteps(raw) ==
    IF raw = None \/ Trim(raw, WhiteSpace) = <<>> THEN <<>>              \* 1
    ELSE LET s2 == Trim(str_lower(raw), WhiteSpace)                      \* 2
             s4 == SquashRuns(s2, WhiteSpace \cup {"_"}, FALSE)          \* 4
             s5 == SelectSeq(s4, LAMBDA c : c \in TopicChars)            \* 5
             s6 == SquashRuns(s5, {"-"}, FALSE)                          \* 6
             s7 == Trim(s6, {"-"})                                       \* 7
         IN  IF "," \in {s2[i] : i \in 1..Len(s2)} THEN <<>>             \* 3
             ELSE IF s7 = <<>> \/ s7[1] \notin LowerLetters \cup Digits
                  THEN <<>>                                              \* 8
             ELSE IF Len(s7) > 35 THEN SubSeq(s7, 1, 35) ELSE s7         \* 9

\* C7: validate_github_topic returns exactly the result of the nine ordered
\* steps of the Topic Validator; in particular "Machine Learning" gives
\* "machine-learning", a text with a comma gives "" and a valid topic is
\* returned unchanged.
C7_NineStepAlgorithm ==
    HasValidated =>
        /\ validated = NineSteps(topic)
        /\ (topic = <<"M","a","c","h","i","n","e"," ","L","e","a","r","n","i","n","g">>
              => validated = <<"m","a","c","h","i","n","e","-","l","e","a","r","n","i","n","g">>)
        /\ (topic = <<"m","a","c","h","i","n","e","-","l","e","a","r","n","i","n","g">>
              => validated = topic)
        /\ (topic = <<"p","y","t","h","o","n",",","j","a","v","a","s","c","r","i","p","t">>
              => validated = EmptyStr)
        /\ (topic = Pad(40) => validated = Pad(35))

\* "Machine Learning" has been normalised
C7_Witness ==
    /\ HasValidated
    /\ topic = <<"M","a","c","h","i","n","e"," ","L","e","a","r","n","i","n","g">>
    /\ validated = <<"m","a","c","h","i","n","e","-","l","e","a","r","n","i","n","g">>

(***************************************************************************)
(* repo_seo.py: the pass over one repository of GitHub                     *)
(*                                                                         *)
(* A repository is a record [name, description, languages, topics, readme, *)
(* is_fork], languages being the list of [name, bytes] entries of the      *)
(* languages API. gh is the state of the gh command: reads says whether    *)
(* the commands that fetch succeed, writes whether those that change the   *)
(* repository do.                                                          *)
(***************************************************************************)
DigitChars == <<"0","1","2","3","4","5","6","7","8","9">>

\* str(n) for a natural number
RECURSIVE int_str(_)
int_str(n) ==
    IF n < 10 THEN <<DigitChars[n + 1]>>
    ELSE int_str(n \div 10) \o <<DigitChars[(n % 10) + 1]>>

\* list(languages.keys())
language_names(stats) == Tuple([i \in 1..Len(stats) |-> stats[i].name])

\* one mutating gh command, ok telling whether it succeeded
Call(op, ok) == [op |-> op, ok |-> ok]

\* the loop that validates the new topics: the non-empty results of
\* validate_github_topic, each once, in order of first occurrence
validated_topics(tps) ==
    LET valid == Tuple([i \in 1..Len(tps) |-> validate_github_topic(tps[i])])
    IN  Pieces(Tuple([i \in 1..Len(tps) |->
            [has |-> valid[i] # EmptyStr /\ \A j \in 1..(i - 1) : valid[j] # valid[i],
             val |-> valid[i]]]))

\* the topic limit of GitHub, as update_repo_topics states it
GitHubMaxTopics == 20

\* update_repo_topics: the names sent to GitHub
update_repo_topics_uncut(tps) == validated_topics(tps)

update_repo_topics(tps) == str_prefix(validated_topics(tps), GitHubMaxTopics)

\* create_or_update_readme: a README of this length is substantial
substantial_readme_length == 500

\* create_or_update_readme: the README it writes
readme_content(name, description, stats, tps) ==
    <<"#", " ">> \o name \o <<"\n", "\n">>
    \o description
    \o <<"\n","\n","#","#"," ","O","v","e","r","v","i","e","w","\n","\n","T","h","i","s"," ",
          "r","e","p","o","s","i","t","o","r","y"," ","c","o","n","t","a","i","n","s"," ",
          "c","o","d","e"," ","f","o","r"," ">>
    \o display_name(name)
    \o <<".","\n","\n","#","#"," ","T","e","c","h","n","o","l","o","g","i","e","s","\n","\n">>
    \o (IF stats # <<>>
        THEN <<"#","#","#"," ","L","a","n","g","u","a","g","e","s","\n","\n">>
             \o Flatten(Tuple([i \in 1..Len(stats) |->
                    <<"-", " ">> \o stats[i].name \o <<":", " ">>
                    \o int_str(stats[i].bytes) \o <<"%", "\n">>]))
             \o <<"\n">>
        ELSE <<>>)
    \o (IF tps # <<>>
        THEN <<"#","#","#"," ","T","o","p","i","c","s","\n","\n">>
             \o Flatten(Tuple([i \in 1..Len(tps) |-> <<"-", " ">> \o tps[i] \o <<"\n">>]))
             \o <<"\n">>
        ELSE <<>>)
    \o <<"#","#"," ","I","n","s","t","a","l","l","a","t","i","o","n","\n","\n",Backtick,Backtick,Backtick,
          "b","a","s","h","\n","#"," ","A","d","d"," ","i","n","s","t","a","l","l","a","t",
          "i","o","n"," ","i","n","s","t","r","u","c","t","i","o","n","s"," ","h","e","r",
          "e","\n",Backtick,Backtick,Backtick,"\n","\n">>
    \o <<"#","#"," ","U","s","a","g","e","\n","\n",Backtick,Backtick,Backtick,"b","a","s","h","\n","#"," ",
          "A","d","d"," ","u","s","a","g","e"," ","e","x","a","m","p","l","e","s"," ","h",
          "e","r","e","\n",Backtick,Backtick,Backtick,"\n","\n">>
    \o <<"#","#"," ","L","i","c","e","n","s","e","\n","\n">>
    \o <<"T","h","i","s"," ","p","r","o","j","e","c","t"," ","i","s"," ","l","i","c","e",
          "n","s","e","d"," ","u","n","d","e","r"," ","t","h","e"," ","t","e","r","m","s",
          " ","o","f"," ","t","h","e"," ","l","i","c","e","n","s","e"," ","i","n","c","l",
          "u","d","e","d"," ","i","n"," ","t","h","e"," ","r","e","p","o","s","i","t","o",
          "r","y",".","\n","\n">>

\* create_or_update_readme: nothing is issued for a substantial README,
\* otherwise the generated README is put
create_or_update_readme(name, description, stats, tps, current_readme, gh) ==
    IF truthy(current_readme) /\ Len(current_readme) >= substantial_readme_length
    THEN [issued |-> FALSE, updated |-> FALSE, content |-> current_readme]
    ELSE [issued |-> TRUE, updated |-> gh.writes,
          content |-> IF gh.writes THEN readme_content(name, description, stats, tps)
                      ELSE current_readme]

\* optimize_repository: the results dictionary
optimize_repository_results(repo, new_description, validated_list, updated) ==
    [repository |-> repo.name,
     description |-> [before |-> repo.description, after |-> new_description],
     topics |-> [before |-> repo.topics, after |-> validated_list],
     readme |-> [before_length |-> Len(repo.readme), updated |-> updated]]

\* optimize_repository, "Update topics if changed": the validated topics and
\* the current ones are compared as sets
topics_changed_as_lists(validated_list, tps) == validated_list # tps

topics_changed(validated_list, tps) == Range(validated_list) # Range(tps)

\* optimize_repository, "Apply changes if not in dry run mode": written is
\* what create_or_update_readme did when it is called
optimize_repository_apply(repo, gh, new_description, validated_list, written) ==
    LET description_differs == new_description # repo.description
        topics_differ == topics_changed(validated_list, repo.topics)
        readme_wanted == ~truthy(repo.readme) \/ Len(repo.readme) < substantial_readme_length
    IN  [outcome |-> Returned(optimize_repository_results(repo, new_description,
                         validated_list, readme_wanted /\ written.updated)),
         calls |->
             (IF description_differs
              THEN <<Call("update_description", gh.writes)>> ELSE <<>>)
             \o (IF topics_differ THEN <<Call("update_topics", gh.writes)>> ELSE <<>>)
             \o (IF readme_wanted /\ written.issued
                 THEN <<Call("write_readme", gh.writes)>> ELSE <<>>),
         repo |->
             [repo EXCEPT
                 !.description = IF description_differs /\ gh.writes
                                 THEN new_description ELSE @,
                 !.topics = IF topics_differ /\ gh.writes
                            THEN update_repo_topics(validated_list) ELSE @,
                 !.readme = IF readme_wanted THEN written.content ELSE @]]

\* optimize_repository from the results dictionary on: a dry run reports
\* only, any other run applies the changes
optimize_repository_report(repo, gh, dry_run, new_description, validated_list) ==
    IF dry_run
    THEN [outcome |-> Returned(optimize_repository_results(repo, new_description,
                          validated_list, FALSE)),
          calls |-> <<>>, repo |-> repo]
    ELSE optimize_repository_apply(repo, gh, new_description, validated_list,
             create_or_update_readme(repo.name, new_description, repo.languages,
                                     validated_list, repo.readme, gh))

\* optimize_repository once the provider has answered: described and
\* generated are the outcomes of its generate_description and
\* generate_topics, whose exception propagates
optimize_repository_validate(repo, gh, dry_run, described, generated) ==
    IF described.raised # "" THEN [outcome |-> described, calls |-> <<>>, repo |-> repo]
    ELSE IF generated.raised # "" THEN [outcome |-> generated, calls |-> <<>>, repo |-> repo]
    ELSE optimize_repository_report(repo, gh, dry_run, described.value,
                                    validated_topics(generated.value))

\* optimize_repository with the provider it got
optimize_repository_generate(repo, gh, dry_run, active, names, reply, seed) ==
    optimize_repository_validate(repo, gh, dry_run,
        provider_generate_description(active, repo.name, names, repo.topics,
                                      repo.readme, reply),
        provider_generate_topics(active, repo.name, names, repo.topics,
                                 repo.readme, reply, seed))

\* the provider made, or the local one when making it raised
provider_or_local(made) == IF made.raised = "" THEN made.value ELSE "local"

\* repo_seo.optimize_repository: the outcome of the call, the mutating
\* commands it issued and the repository it leaves
optimize_repository(repo, gh, dry_run, llm_provider, reply, seed) ==
    IF ~gh.reads
    THEN [outcome |-> Returned([status |-> "error",
                                message |-> <<"C","o","u","l","d"," ","n","o","t"," ","f","e","t","c","h"," ","d","e","t","a",
                                      "i","l","s"," ","f","o","r"," ","r","e","p","o","s","i","t","o","r","y"," ">>
                                            \o repo.name]),
          calls |-> <<>>, repo |-> repo]
    ELSE optimize_repository_generate(repo, gh, dry_run,
             provider_or_local(get_provider(llm_provider, reply)),
             language_names(repo.languages), reply, seed)

\* main: the result of a repository is appended to the list of results
results_list(run) ==
    IF run.outcome.raised # "" THEN run
    ELSE [run EXCEPT !.outcome = Returned(<<run.outcome.value>>)]

\* repo_seo.main for an account that lists the one repository: flags are the
\* options given, the outcome is the list written to the results file
repo_seo_main(repo, flags, llm_provider, gh, reply, seed) ==
    IF ~("--repo" \in flags \/ gh.reads)
    THEN [outcome |-> Returned(<<>>), calls |-> <<>>, repo |-> repo]
    ELSE results_list(optimize_repository(repo, gh, "--dry-run" \in flags, llm_provider,
                                          reply, seed))

(***************************************************************************)
(* run_optimization.py                                                     *)
(***************************************************************************)
\* optimize_repo after the call of optimize_repository: an error record in
\* place of the result raises KeyError where the result is printed
optimize_repo_print(synced, run) ==
    IF run.outcome.raised = "" /\ "repository" \notin DOMAIN run.outcome.value
    THEN [outcome |-> Raised("KeyError"), calls |-> synced \o run.calls,
          repo |-> run.repo]
    ELSE [run EXCEPT !.calls = synced \o run.calls]

\* optimize_repo: a fork is synced first when sync_forks is set, then the
\* repository is optimised
optimize_repo(repo, gh, dry_run, llm_provider, sync_forks, reply, seed) ==
    optimize_repo_print(
        IF sync_forks /\ gh.reads /\ repo.is_fork
        THEN <<Call("sync_fork", gh.writes)>> ELSE <<>>,
        optimize_repository(repo, gh, dry_run, llm_provider, reply, seed))

\* main of run_optimization.py: the exception of optimize_repo is caught
\* and the repository skipped
run_optimization_results(run) ==
    IF run.outcome.raised # "" THEN [run EXCEPT !.outcome = Returned(<<>>)]
    ELSE [run EXCEPT !.outcome = Returned(<<run.outcome.value>>)]

\* run_optimization.main for an account that lists the one repository, the
\* user selecting 'all': the outcome is the list of results
run_optimization_main(repo, flags, llm_provider, gh, reply, seed) ==
    IF ~gh.reads THEN [outcome |-> Raised("SystemExit"), calls |-> <<>>, repo |-> repo]
    ELSE run_optimization_results(
             optimize_repo(repo, gh, "--apply" \notin flags, llm_provider,
                           "--no-sync" \notin flags, reply, seed))

(***************************************************************************)
(* Inputs of the generation calls                                          *)
(***************************************************************************)
\* n distinct valid topics "t1", "t2", ...
TopicList(n) == Tuple([i \in 1..n |-> <<"t">> \o int_str(i)])

RepoNames ==
    { <<"m","y","-","c","o","o","l","-","t","o","o","l">>,
      <<"S","e","o","_","f","o","r","-","A","P","I","2">> }

LanguageLists ==
    { <<>>,
      << <<"P","y","t","h","o","n">> >>,
      << <<"C","+","+">>, <<"P","y","t","h","o","n">>, <<"G","o">> >> }

\* topic lists a repository of GitHub can carry
CurrentTopicLists ==
    {TopicList(n) : n \in {0, 1, LocalProvider_max_topics - 1, LocalProvider_max_topics,
                           GitHubMaxTopics - 1, GitHubMaxTopics}}
    \cup { << <<"r","e","s","t","-","a","p","i">>, <<"p","y","t","h","o","n">> >> }

ReadmeHead ==
    <<"#"," ","A","p","i"," ","T","o","o","l","\n","\n","A"," ","c","l","i"," ","t","o",
          "o","l"," ","f","o","r"," ","d","a","t","a"," ","a","n","a","l","y","s","i","s",
          ".","\n","\n","#","#"," ","U","s","a","g","e"," ","n","o","t","e","s","\n">>

\* ReadmeHead followed by filler words, n characters in all
ReadmeOfLen(n) ==
    Tuple([i \in 1..n |->
        IF i <= Len(ReadmeHead) THEN ReadmeHead[i]
        ELSE <<"d","a","t","a"," ">>[((i - Len(ReadmeHead) - 1) % 5) + 1]])

\* README lengths around the threshold of generate_readme
ReadmeLens == {0, 20, kept_readme_length - 1, kept_readme_length,
               kept_readme_length + 1, 150}

Readmes == {ReadmeOfLen(n) : n \in ReadmeLens}

(***************************************************************************)
(* SpecGenerator: the topic generation calls applied to bounded inputs     *)
(***************************************************************************)
InitGenerator ==
    /\ pc = "call"
    /\ topic = None
    /\ validated = None
    /\ revalidated = None
    /\ repo_name \in RepoNames
    /\ languages \in LanguageLists
    /\ current_topics \in CurrentTopicLists
    /\ current_description = EmptyStr
    /\ readme \in Readmes
    /\ provider = "local"
    /\ remote = NoReply
    /\ hash_seed \in HashSeeds
    /\ is_fork = FALSE
    /\ argv = {}
    /\ calls = <<>>
    /\ result = Returned(None)
    /\ NoBatch
    /\ NoObjects

\* LocalProvider().generate_topics(repo_name, languages, current_topics, readme)
LocalGenerateTopics ==
    /\ pc = "call"
    /\ result' = Returned(LocalProvider_generate_topics(repo_name, languages,
                                                        current_topics, readme, hash_seed))
    /\ pc' = "LocalProvider.generate_topics"
    /\ UNCHANGED <<vars_validator, vars_call, vars_run, vars_batch, vars_objects>>

\* seo_generator.generator.generate_topics(repo_name, languages, current_topics, readme)
RuleGenerateTopics ==
    /\ pc = "call"
    /\ result' = Returned(generate_topics(repo_name, languages, current_topics,
                                          readme, hash_seed))
    /\ pc' = "generate_topics"
    /\ UNCHANGED <<vars_validator, vars_call, vars_run, vars_batch, vars_objects>>

NextGenerator == LocalGenerateTopics \/ RuleGenerateTopics

SpecGenerator == InitGenerator /\ [][NextGenerator]_vars

\* C8: LocalProvider.generate_topics returns at most 20 topics, and so does
\* the rule-based generate_topics of the SEO generator, for any repository
\* name, languages, current topics and README.
C8_TopicCap ==
    pc \in {"LocalProvider.generate_topics", "generate_topics"}
        => Len(result.value) <= 20

(***************************************************************************)
(* SpecReadme: the generate_readme calls applied to bounded inputs         *)
(***************************************************************************)
\* what the backend of a remote provider may answer to the README request
RemoteReplies ==
    { NoReply,
      [api_key |-> TRUE, fails |-> TRUE, error |-> "Timeout", text |-> EmptyStr],
      [api_key |-> TRUE, fails |-> FALSE, error |-> "",
       text |-> <<"\n","#"," ","T","o","o","l","\n","\n","A"," ","g","e","n","e","r","a","t","e","d",
             " ","R","E","A","D","M","E",".","\n"," ">>] }

ReadmeTopicLists == { <<>>, << <<"r","e","s","t","-","a","p","i">>, <<"p","y","t","h","o","n">> >> }

ReadmeDescriptions == { <<"A"," ","t","o","o","l"," ","f","o","r"," ","d","a","t","a"," ","a","n","a","l","y","s","i","s">> }

InitReadme ==
    /\ pc = "call"
    /\ topic = None
    /\ validated = None
    /\ revalidated = None
    /\ repo_name \in RepoNames
    /\ languages \in LanguageLists
    /\ current_topics \in ReadmeTopicLists
    /\ current_description \in ReadmeDescriptions
    /\ readme \in Readmes \cup {None}
    /\ provider \in Providers
    /\ remote \in RemoteReplies
    /\ hash_seed = "ascending"
    /\ is_fork = FALSE
    /\ argv = {}
    /\ calls = <<>>
    /\ result = Returned(None)
    /\ NoBatch
    /\ NoObjects

\* LocalProvider().generate_readme(repo_name, languages, topics, description,
\*                                 existing_readme=readme)
LocalGenerateReadme ==
    /\ pc = "call"
    /\ provider = "local"
    /\ result' = Returned(LocalProvider_generate_readme(repo_name, languages, current_topics,
                                                        current_description, readme))
    /\ pc' = "LocalProvider.generate_readme"
    /\ UNCHANGED <<vars_validator, vars_call, vars_run, vars_batch, vars_objects>>

\* seo_generator.generator.generate_readme(..., existing_readme=readme)
RuleGenerateReadme ==
    /\ pc = "call"
    /\ result' = Returned(generate_readme(repo_name, languages, current_topics,
                                          current_description, readme))
    /\ pc' = "generate_readme"
    /\ UNCHANGED <<vars_validator, vars_call, vars_run, vars_batch, vars_objects>>

\* generate_readme(..., existing_readme=readme) of an OpenAIProvider or an
\* AnthropicProvider that could be constructed
RemoteGenerateReadme ==
    /\ pc = "call"
    /\ provider \in {"openai", "anthropic"}
    /\ get_provider(provider, remote).raised = ""
    /\ result' = provider_generate_readme(provider, repo_name, languages, current_topics,
                                          current_description, readme, remote)
    /\ pc' = IF provider = "openai" THEN "OpenAIProvider.generate_readme"
             ELSE "AnthropicProvider.generate_readme"
    /\ UNCHANGED <<vars_validator, vars_call, vars_run, vars_batch, vars_objects>>

\* SEOGenerator(provider).generate_readme(..., existing_readme=readme)
SEOGeneratorGenerateReadme ==
    /\ pc = "call"
    /\ get_provider(provider, remote).raised = ""
    /\ result' = Returned(SEOGenerator_generate_readme(provider, repo_name, languages,
                              current_topics, current_description, readme, remote))
    /\ pc' = "SEOGenerator.generate_readme"
    /\ UNCHANGED <<vars_validator, vars_call, vars_run, vars_batch, vars_objects>>

NextReadme ==
    \/ LocalGenerateReadme
    \/ RuleGenerateReadme
    \/ RemoteGenerateReadme
    \/ SEOGeneratorGenerateReadme

SpecReadme == InitReadme /\ [][NextReadme]_vars

GenerateReadmeDone ==
    pc \in {"LocalProvider.generate_readme", "generate_readme",
            "OpenAIProvider.generate_readme", "AnthropicProvider.generate_readme",
            "SEOGenerator.generate_readme"}

\* C10: for any provider, generate_readme(..., existing_readme=X) returns
\* exactly X whenever X has at least 100 characters, whatever the other
\* arguments are.
C10_ReadmeKeptFrom100 ==
    (GenerateReadmeDone /\ truthy(readme) /\ Len(readme) >= 100)
        => result = Returned(readme)

(***************************************************************************)
(* Spec: the entry points that optimise one repository                     *)
(***************************************************************************)
RunRepoNames == { <<"m","y","-","c","o","o","l","-","t","o","o","l">> }

\* the languages API: bytes of code per language
LanguageStats ==
    { <<>>,
      << [name |-> <<"P","y","t","h","o","n">>, bytes |-> 1200], [name |-> <<"G","o">>, bytes |-> 34] >> }

RunTopicLists == { <<>>, << <<"c","o","o","l">>, <<"t","o","o","l">> >> }

\* no description, and the one the LocalProvider generates for the
\* repository without languages that carries the topics cool and tool
RunDescriptions ==
    { EmptyStr,
      <<"A"," ","p","r","o","j","e","c","t"," ","f","o","r"," ","M","y"," ","C","o","o",
            "l"," ","T","o","o","l"," ","f","o","c","u","s","e","d"," ","o","n"," ","c","o",
            "o","l",","," ","t","o","o","l">> }

\* README lengths around the thresholds of the two passes
RunReadmeLens == {0, min_kept_readme - 1, min_kept_readme,
                  substantial_readme_length - 1, substantial_readme_length}

RunReadmes == {ReadmeOfLen(n) : n \in RunReadmeLens}

\* the provider a run names
RunProviders == {"local", "openai"}

\* the gh command works, cannot fetch, or cannot change the repository
GhOutcomes ==
    { [reads |-> TRUE, writes |-> TRUE],
      [reads |-> FALSE, writes |-> TRUE],
      [reads |-> TRUE, writes |-> FALSE] }

Init ==
    /\ pc = "shell"
    /\ topic = None
    /\ validated = None
    /\ revalidated = None
    /\ repo_name \in RunRepoNames
    /\ languages \in LanguageStats
    /\ current_topics \in RunTopicLists
    /\ current_description \in RunDescriptions
    /\ readme \in RunReadmes
    /\ provider \in RunProviders
    /\ remote = NoReply
    /\ hash_seed \in HashSeeds
    /\ is_fork \in BOOLEAN
    /\ argv = {}
    /\ calls = <<>>
    /\ result = Returned(None)
    /\ NoBatch
    /\ NoObjects

\* the repository as GitHub holds it
Repo ==
    [name |-> repo_name, description |-> current_description, languages |-> languages,
     topics |-> current_topics, readme |-> readme, is_fork |-> is_fork]

\* the entry point has run: its outcome, the commands it issued and the
\* repository it leaves on GitHub
Finish(entry, given, run) ==
    /\ pc' = entry
    /\ argv' = given
    /\ calls' = run.calls
    /\ result' = run.outcome
    /\ current_description' = run.repo.description
    /\ current_topics' = run.repo.topics
    /\ readme' = run.repo.readme
    /\ UNCHANGED <<vars_validator, repo_name, languages, provider, remote, hash_seed,
                   is_fork, vars_batch, vars_objects>>

\* python repo_seo.py <username> [--repo <name>] [--dry-run] [--provider <provider>]
RepoSeoMain ==
    /\ pc = "shell"
    /\ \E flags \in SUBSET {"--repo", "--dry-run"}, gh \in GhOutcomes :
           \E run \in {repo_seo_main(Repo, flags, provider, gh, remote, hash_seed)} :
               Finish("repo_seo.main", flags, run)

\* python run_optimization.py <username> [--apply] [--no-sync] [--provider <provider>]
RunOptimizationMain ==
    /\ pc = "shell"
    /\ \E flags \in SUBSET {"--apply", "--no-sync"}, gh \in GhOutcomes :
           \E run \in {run_optimization_main(Repo, flags, provider, gh, remote, hash_seed)} :
               Finish("run_optimization.main", flags, run)

\* run_optimization.optimize_repo(username, repo_name, llm_provider=provider, ...):
\* dry_run is True and sync_forks is True unless the keyword is given
OptimizeRepo ==
    /\ pc = "shell"
    /\ \E keywords \in SUBSET {"dry_run=False", "sync_forks=False"}, gh \in GhOutcomes :
           \E run \in {optimize_repo(Repo, gh, "dry_run=False" \notin keywords, provider,
                                     "sync_forks=False" \notin keywords, remote, hash_seed)} :
               Finish("optimize_repo", keywords, run)

\* repo_seo.optimize_repository(username, repo_name, llm_provider=provider, ...):
\* dry_run is False unless the keyword is given
OptimizeRepository ==
    /\ pc = "shell"
    /\ \E keywords \in SUBSET {"dry_run=True"}, gh \in GhOutcomes :
           \E run \in {optimize_repository(Repo, gh, "dry_run=True" \in keywords, provider,
                                           remote, hash_seed)} :
               Finish("optimize_repository", keywords, run)

\* SEOGenerator(provider).optimize_repository(repo_name, languages,
\*     current_topics, current_description, readme)
SEOGeneratorOptimizeRepository ==
    /\ pc = "shell"
    /\ LET made == get_provider(provider, remote)
       IN  result' = IF made.raised # "" THEN made
                     ELSE SEOGenerator_optimize_repository(provider, repo_name,
                              language_names(languages), current_topics,
                              current_description, readme, remote, hash_seed)
    /\ pc' = "SEOGenerator.optimize_repository"
    /\ UNCHANGED <<vars_validator, vars_call, vars_run, vars_batch, vars_objects>>

Next ==
    \/ RepoSeoMain
    \/ RunOptimizationMain
    \/ OptimizeRepo
    \/ OptimizeRepository
    \/ SEOGeneratorOptimizeRepository

Spec == Init /\ [][Next]_vars

\* the commands that write a field of the repository
FieldWrites == {"update_description", "update_topics", "write_readme"}

Issued(ops) == \E i \in 1..Len(calls) : calls[i].op \in ops

\* C1: a dry-run pass over one repository (dry_run=True, the default of
\* run_optimization.optimize_repo) issues no description update, no topics
\* update, no README write and no fork sync, on every path through
\* optimize_repo and repo_seo.optimize_repository.
C1_DryRunNeverMutates ==
    (\/ pc = "optimize_repo" /\ "dry_run=False" \notin argv
     \/ pc = "optimize_repository" /\ "dry_run=True" \in argv)
        => calls = <<>>

\* C2: dry run is the default of every command-line entry point: a run that
\* is given no flag asking for changes to be applied writes no description,
\* no topics and no README.
C2_DryRunIsDefault ==
    (pc \in {"repo_seo.main", "run_optimization.main"} /\ "--apply" \notin argv)
        => ~Issued(FieldWrites)

\* C3: for every input and every provider, SEOGenerator.optimize_repository
\* returns a result whose new_topics are all valid topics (each one is its
\* own non-empty validate_github_topic result), no two of them equal
\* ignoring case, and at most 20 of them.
C3_NewTopicsValid ==
    pc = "SEOGenerator.optimize_repository" =>
        /\ result.raised = ""
        /\ LET new_topics == result.value.new_topics
           IN  /\ \A i \in 1..Len(new_topics) :
                      /\ new_topics[i] # EmptyStr
                      /\ validate_github_topic(new_topics[i]) = new_topics[i]
               /\ \A i, j \in 1..Len(new_topics) :
                      i # j => str_lower(new_topics[i]) # str_lower(new_topics[j])
               /\ Len(new_topics) <= 20

\* C9: an existing README of at least 100 characters is never regenerated
\* or overwritten by an optimization pass: SEOGenerator.optimize_repository
\* returns new_readme equal to the README with changes.readme false, and
\* repo_seo.optimize_repository in apply mode issues no README write for it.
C9_ReadmeFrom100Kept ==
    /\ (pc = "SEOGenerator.optimize_repository" /\ Len(readme) >= 100) =>
           /\ result.raised = ""
           /\ result.value.new_readme = readme
           /\ ~result.value.changes.readme
    /\ (/\ pc = "optimize_repository"
        /\ "dry_run=True" \notin argv
        /\ "readme" \in DOMAIN result.value
        /\ result.value.readme.before_length >= 100) =>
           ~Issued({"write_readme"})

\* C11: a current description of at least 30 characters is kept as is by an
\* optimization pass: SEOGenerator.optimize_repository returns
\* new_description equal to it with changes.description false, and
\* repo_seo.optimize_repository in apply mode issues no description update
\* for it.
C11_DescriptionFrom30Kept ==
    /\ (pc = "SEOGenerator.optimize_repository" /\ Len(current_description) >= 30) =>
           /\ result.raised = ""
           /\ result.value.new_description = current_description
           /\ ~result.value.changes.description
    /\ (/\ pc = "optimize_repository"
        /\ "dry_run=True" \notin argv
        /\ "description" \in DOMAIN result.value
        /\ Len(result.value.description.before) >= 30) =>
           ~Issued({"update_description"})

\* repo_seo.optimize_repository has returned its results from an apply run
Applied ==
    /\ pc = "optimize_repository"
    /\ "dry_run=True" \notin argv
    /\ result.raised = ""
    /\ "repository" \in DOMAIN result.value

\* C12: in apply mode repo_seo.optimize_repository writes back only changed
\* fields: update_repo_description is called only if the new description
\* differs from the current one, and update_repo_topics only if the
\* validated new topics differ from the current topics as sets.
C12_OnlyChangedFieldsWritten ==
    Applied =>
        /\ Issued({"update_description"}) =>
               result.value.description.after # result.value.description.before
        /\ Issued({"update_topics"}) =>
               Range(result.value.topics.after) # Range(result.value.topics.before)

\* an apply run that generated the description the repository has and the
\* topics it has in another order, and wrote neither
C12_Witness ==
    /\ Applied
    /\ result.value.description.before # EmptyStr
    /\ result.value.description.after = result.value.description.before
    /\ result.value.topics.after # result.value.topics.before
    /\ Range(result.value.topics.after) = Range(result.value.topics.before)
    /\ ~Issued({"update_description", "update_topics"})

(***************************************************************************)
(* SpecProviders: the calls of a provider and of the SEOGenerator methods  *)
(* that wrap them, for a backend that answers or fails                     *)
(***************************************************************************)
\* a README whose first line is longer than first_line_min_length and
\* shorter than LocalProvider_min_description_length
ShortLineReadme == <<"A"," ","s","m","a","l","l"," ","t","o","o","l"," ","t","h","a","t"," ","p","r",
      "i","n","t","s"," ","t","h","e"," ","t","i","m","e"," ","o","f"," ","d","a","y",
      "\n">>

FallbackReadmes == {EmptyStr, ShortLineReadme, ReadmeOfLen(kept_readme_length + 50)}

FallbackTopicLists ==
    { <<>>, << <<"r","e","s","t","-","a","p","i">>, <<"p","y","t","h","o","n">> >>, TopicList(LocalProvider_max_topics + 1) }

\* what the backend of a remote provider may do with a request
ProviderReplies ==
    { NoReply }
    \cup { [api_key |-> TRUE, fails |-> TRUE, error |-> e, text |-> EmptyStr] :
               e \in TransportErrors }
    \cup { [api_key |-> TRUE, fails |-> FALSE, error |-> "", text |-> t] :
               t \in { <<" ","T","o","o","l","s"," ","f","o","r"," ","s","e","a","r","c","h"," ","e","n",
                     "g","i","n","e"," ","o","p","t","i","m","i","s","a","t","i","o","n"," ","o","f",
                     " ","r","e","p","o","s","i","t","o","r","i","e","s","."," ">>,
                       <<"T","o","p","i","c","s",":"," ","[",Quote,"S","E","O",Quote,","," ",Quote,"g","i","t",
                             "h","u","b",Quote,","," ",Quote,"s","e","o",Quote,"]","\n">> } }

InitProviders ==
    /\ pc = "call"
    /\ topic = None
    /\ validated = None
    /\ revalidated = None
    /\ repo_name \in RunRepoNames
    /\ languages \in LanguageLists
    /\ current_topics \in FallbackTopicLists
    /\ current_description \in ReadmeDescriptions
    /\ readme \in FallbackReadmes
    /\ provider \in Providers
    /\ remote \in ProviderReplies
    /\ hash_seed \in HashSeeds
    /\ is_fork = FALSE
    /\ argv = {}
    /\ calls = <<>>
    /\ result = Returned(None)
    /\ NoBatch
    /\ NoObjects

\* get_provider(provider).generate_description(repo_name, languages,
\*     current_topics, readme)
ProviderGenerateDescription ==
    /\ pc = "call"
    /\ get_provider(provider, remote).raised = ""
    /\ result' = provider_generate_description(provider, repo_name, languages,
                                               current_topics, readme, remote)
    /\ pc' = "provider.generate_description"
    /\ UNCHANGED <<vars_validator, vars_call, vars_run, vars_batch, vars_objects>>

\* get_provider(provider).generate_topics(repo_name, languages,
\*     current_topics, readme)
ProviderGenerateTopics ==
    /\ pc = "call"
    /\ get_provider(provider, remote).raised = ""
    /\ result' = provider_generate_topics(provider, repo_name, languages,
                                          current_topics, readme, remote, hash_seed)
    /\ pc' = "provider.generate_topics"
    /\ UNCHANGED <<vars_validator, vars_call, vars_run, vars_batch, vars_objects>>

\* SEOGenerator(provider).generate_description(repo_name, languages,
\*     current_topics, readme)
SEOGeneratorGenerateDescription ==
    /\ pc = "call"
    /\ get_provider(provider, remote).raised = ""
    /\ result' = Returned(SEOGenerator_generate_description(provider, repo_name, languages,
                              current_topics, readme, remote))
    /\ pc' = "SEOGenerator.generate_description"
    /\ UNCHANGED <<vars_validator, vars_call, vars_run, vars_batch, vars_objects>>

\* SEOGenerator(provider).generate_topics(repo_name, languages,
\*     current_topics, readme)
SEOGeneratorGenerateTopics ==
    /\ pc = "call"
    /\ get_provider(provider, remote).raised = ""
    /\ result' = Returned(SEOGenerator_generate_topics(provider, repo_name, languages,
                              current_topics, readme, remote, hash_seed))
    /\ pc' = "SEOGenerator.generate_topics"
    /\ UNCHANGED <<vars_validator, vars_call, vars_run, vars_batch, vars_objects>>

\* the names a caller passes to get_provider
ProviderNameTexts ==
    { <<"l","o","c","a","l">>, <<"L","O","C","A","L">>, <<"o","p","e","n","a","i">>, <<"O","p","e","n","A","I">>, <<"A","n","t","h","r","o","p","i","c">>, <<"o","l","l","a","m","a">>,
      <<"D","e","e","p","S","e","e","k">>, <<"g","e","m","i","n","i">>, <<"N","o","n","e","x","i","s","t","e","n","t">>, EmptyStr }

\* get_provider(provider_name)
GetProvider ==
    /\ pc = "call"
    /\ \E provider_name \in ProviderNameTexts :
           /\ argv' = {provider_name}
           /\ result' = get_provider_by_name(provider_name, remote)
    /\ pc' = "get_provider"
    /\ UNCHANGED <<vars_validator, vars_call, is_fork, calls, vars_batch, vars_objects>>

\* the provider classes that derive from BaseProvider, which defines
\* get_model_info; OllamaProvider and DeepSeekProvider derive from
\* LLMProvider, which does not
BaseProviders == {"local", "openai", "anthropic"}

\* provider.get_model_info() on a provider of the class
get_model_info(class) ==
    IF class \in BaseProviders THEN Returned(class) ELSE Raised("AttributeError")

\* the entry of a provider whose construction and get_model_info() went
\* through, or the entry of the except branch with the exception caught
provider_entry(name, made, info) ==
    IF made.raised # ""
    THEN [name |-> name, available |-> FALSE, error |-> made.raised]
    ELSE IF info.raised # ""
    THEN [name |-> name, available |-> FALSE, error |-> info.raised]
    ELSE [name |-> name, available |-> TRUE, error |-> ""]

\* list_available_providers(): one entry per item of _PROVIDERS, in the
\* order of the dictionary
list_available_providers(reply) ==
    Tuple([k \in 1..Len(PROVIDERS) |->
              provider_entry(PROVIDERS[k].name, get_provider(PROVIDERS[k].class, reply),
                             get_model_info(PROVIDERS[k].class))])

\* list_available_providers()
ListAvailableProviders ==
    /\ pc = "call"
    /\ result' = Returned(list_available_providers(remote))
    /\ pc' = "list_available_providers"
    /\ UNCHANGED <<vars_validator, vars_call, vars_run, vars_batch, vars_objects>>

NextProviders ==
    \/ ProviderGenerateDescription
    \/ ProviderGenerateTopics
    \/ SEOGeneratorGenerateDescription
    \/ SEOGeneratorGenerateTopics
    \/ SEOGeneratorGenerateReadme
    \/ GetProvider
    \/ ListAvailableProviders

SpecProviders == InitProviders /\ [][NextProviders]_vars

\* C13: when the active provider's call for a field (description, topics
\* or README) raises, the result of the SEOGenerator method for that field
\* equals what LocalProvider returns for the same repo_name, languages,
\* topics and readme.
C13_FallbackEqualsLocal ==
    /\ (/\ pc = "SEOGenerator.generate_description"
        /\ provider_generate_description(provider, repo_name, languages, current_topics,
                                         readme, remote).raised # "") =>
           result = Returned(LocalProvider_generate_description(repo_name, languages,
                                 current_topics, readme))
    /\ (/\ pc = "SEOGenerator.generate_topics"
        /\ provider_generate_topics(provider, repo_name, languages, current_topics,
                                    readme, remote, hash_seed).raised # "") =>
           result = Returned(LocalProvider_generate_topics(repo_name, languages,
                                 current_topics, readme, hash_seed))
    /\ (/\ pc = "SEOGenerator.generate_readme"
        /\ provider_generate_readme(provider, repo_name, languages, current_topics,
                                    current_description, readme, remote).raised # "") =>
           result = Returned(LocalProvider_generate_readme(repo_name, languages,
                                 current_topics, current_description, readme))

\* the messages of a failed request all begin with the word Error
FailureMessage(s) == str_startswith(str_lower(s), <<"e","r","r","o","r">>)

\* C14: a call of a remote adapter whose request fails at the transport
\* level (connection refused, timeout, status other than 200) never returns
\* the failure message as the generated description or as a generated
\* topic, from the adapter itself or through the SEOGenerator method.
C14_FailureNeverReturned ==
    (provider # "local" /\ remote.fails /\ result.raised = "") =>
        /\ pc \in {"provider.generate_description", "SEOGenerator.generate_description"} =>
               ~FailureMessage(result.value)
        /\ pc \in {"provider.generate_topics", "SEOGenerator.generate_topics"} =>
               \A i \in 1..Len(result.value) : ~FailureMessage(result.value[i])

(***************************************************************************)
(* SpecBatch: repo_seo.main without --repo and run_optimization.main with  *)
(* the selection 'all', one repository of the account per step             *)
(***************************************************************************)
\* number of repositories the account lists
MaxRepos == 3

\* the k-th repository of the account as GitHub holds it
BatchRepo(k) ==
    [name |-> <<"r","e","p","o","-">> \o int_str(k), description |-> EmptyStr, languages |-> <<>>,
     topics |-> <<>>, readme |-> EmptyStr, is_fork |-> (k % 2 = 0)]

\* the gh command works for a repository, or cannot fetch its details
BatchGh == { [reads |-> TRUE, writes |-> TRUE], [reads |-> FALSE, writes |-> TRUE] }

\* while a repository is processed the backend answers, or the request
\* times out
BatchErrors == {"", "Timeout"}

\* the account: each repository with the behaviour of gh and of the backend
\* while it is processed
Accounts ==
    { Tuple([k \in 1..MaxRepos |-> [repo |-> BatchRepo(k), gh |-> gh[k], error |-> err[k]]]) :
          gh \in [1..MaxRepos -> BatchGh], err \in [1..MaxRepos -> BatchErrors] }

\* the backend of the remote providers: the API key is set or not, the
\* completion it returns is the same for every request
BatchBackends ==
    { [api_key |-> k, fails |-> FALSE, error |-> "", text |-> <<"T","o","o","l","s"," ","f","o","r"," ","S","E","O">>] :
          k \in BOOLEAN }

\* the names --provider is given: registered ones, a name that repo_seo.py
\* lists among its choices without a provider being registered for it, and
\* a name nobody knows
BatchProviders == {"local", "openai", "ollama", "gemini", "bogus"}

\* the choices of repo_seo.py's --provider option
provider_choices ==
    {"local", "openai", "ollama", "anthropic", "deepseek", "gemini", "zhipu", "qianwen"}

\* what the backend does with the requests made for one repository
BackendReply(backend, error) == [backend EXCEPT !.fails = error # "", !.error = error]

InitBatch ==
    /\ pc = "shell"
    /\ topic = None
    /\ validated = None
    /\ revalidated = None
    /\ repo_name = EmptyStr
    /\ languages = <<>>
    /\ current_topics = <<>>
    /\ current_description = EmptyStr
    /\ readme = EmptyStr
    /\ provider \in BatchProviders
    /\ remote \in BatchBackends
    /\ hash_seed = "ascending"
    /\ is_fork = FALSE
    /\ argv = {}
    /\ calls = <<>>
    /\ result = Returned(None)
    /\ account \in Accounts
    /\ position = 0
    /\ results = <<>>
    /\ output = None
    /\ NoObjects

\* python repo_seo.py <username> [--dry-run] --provider <provider>, up to
\* the loop over the repositories get_user_repos lists
RepoSeoBatchStart ==
    /\ pc = "shell"
    /\ provider \in provider_choices
    /\ \E flags \in SUBSET {"--dry-run"} : argv' = flags
    /\ pc' = "repo_seo.main: loop"
    /\ UNCHANGED <<vars_validator, vars_call, is_fork, calls, result, vars_batch, vars_objects>>

\* python repo_seo.py <username> --provider <provider> for a name that is
\* not among the choices: parse_args prints the usage and exits with 2
RepoSeoBatchUsage ==
    /\ pc = "shell"
    /\ provider \notin provider_choices
    /\ pc' = "repo_seo.main: exit 2"
    /\ UNCHANGED <<vars_validator, vars_call, vars_run, result, vars_batch, vars_objects>>

\* one pass of the loop: the result of optimize_repository is appended; an
\* exception it raises leaves main
RepoSeoBatchProcessed(k, run) ==
    /\ calls' = calls \o run.calls
    /\ account' = [account EXCEPT ![k].repo = run.repo]
    /\ IF run.outcome.raised # ""
       THEN /\ pc' = "repo_seo.main: raised"
            /\ result' = run.outcome
            /\ UNCHANGED <<position, results, vars_objects>>
       ELSE /\ results' = Append(results, run.outcome.value)
            /\ position' = k
            /\ UNCHANGED <<pc, result, vars_objects>>
    /\ UNCHANGED <<vars_validator, vars_call, is_fork, argv, output, vars_objects>>

RepoSeoBatchStep ==
    /\ pc = "repo_seo.main: loop"
    /\ position < Len(account)
    /\ \E run \in {optimize_repository(account[position + 1].repo, account[position + 1].gh,
                       "--dry-run" \in argv, provider,
                       BackendReply(remote, account[position + 1].error), hash_seed)} :
           RepoSeoBatchProcessed(position + 1, run)

\* after the loop the results are saved to the output file
RepoSeoBatchSave ==
    /\ pc = "repo_seo.main: loop"
    /\ position = Len(account)
    /\ output' = results
    /\ pc' = "repo_seo.main: done"
    /\ UNCHANGED <<vars_validator, vars_call, vars_run, result, account, position, results, vars_objects>>

\* python run_optimization.py <username> [--apply] --provider <provider>,
\* the user answering 'all': up to the loop over the selected repositories
RunOptimizationBatchStart ==
    /\ pc = "shell"
    /\ \E flags \in SUBSET {"--apply"} : argv' = flags
    /\ pc' = "run_optimization.main: loop"
    /\ UNCHANGED <<vars_validator, vars_call, is_fork, calls, result, vars_batch, vars_objects>>

\* one pass of the loop: the result of optimize_repo is appended; an
\* exception it raises is printed and the loop goes on
RunOptimizationBatchProcessed(k, run) ==
    /\ calls' = calls \o run.calls
    /\ account' = [account EXCEPT ![k].repo = run.repo]
    /\ results' = IF run.outcome.raised # "" THEN results
                  ELSE Append(results, run.outcome.value)
    /\ position' = k
    /\ UNCHANGED <<pc, vars_validator, vars_call, is_fork, argv, result, output, vars_objects>>

RunOptimizationBatchStep ==
    /\ pc = "run_optimization.main: loop"
    /\ position < Len(account)
    /\ \E run \in {optimize_repo(account[position + 1].repo, account[position + 1].gh,
                       "--apply" \notin argv, provider, TRUE,
                       BackendReply(remote, account[position + 1].error), hash_seed)} :
           RunOptimizationBatchProcessed(position + 1, run)

\* after the loop: "Optimization complete!"
RunOptimizationBatchDone ==
    /\ pc = "run_optimization.main: loop"
    /\ position = Len(account)
    /\ pc' = "run_optimization.main: done"
    /\ UNCHANGED <<vars_validator, vars_call, vars_run, result, vars_batch, vars_objects>>

NextBatch ==
    \/ RepoSeoBatchStart
    \/ RepoSeoBatchUsage
    \/ RepoSeoBatchStep
    \/ RepoSeoBatchSave
    \/ RunOptimizationBatchStart
    \/ RunOptimizationBatchStep
    \/ RunOptimizationBatchDone

SpecBatch == InitBatch /\ [][NextBatch]_vars

\* the batch run of repo_seo.main has ended, by its last statement or by
\* an exception
RepoSeoBatchEnded == pc \in {"repo_seo.main: done", "repo_seo.main: raised"}

\* C15: an exception raised by a provider call while one repository of a
\* batch is processed never aborts the batch: when repo_seo.main has ended,
\* every repository of the account has been processed and the results file
\* has been written.
C15_ProviderErrorNeverAborts ==
    RepoSeoBatchEnded =>
        /\ pc = "repo_seo.main: done"
        /\ position = Len(account)
        /\ output # None

\* C16: a failure of the ANALYZE step does not abort the pass: when the call
\* of the repository analyzer fails, SEOGenerator.optimize_repository of a
\* generator that could be constructed still returns a result, and that
\* result carries an empty analysis.
C16_AnalyzeFailureDoesNotAbort ==
    (/\ pc = "SEOGenerator.optimize_repository"
     /\ get_provider(provider, remote).raised = ""
     /\ ~call_binds(analyze_repository_keywords, analyze_repository_parameters)) =>
        /\ result.raised = ""
        /\ DOMAIN result.value.analysis = {}

\* C17: a batch run of repo_seo.main over n repositories produces exactly n
\* result entries in input order: when the run has ended, the results file
\* holds one entry per repository of the account, in the order of the
\* account, an error record for a repository whose fetch failed and the
\* result of that repository otherwise.
C17_BatchOrder ==
    RepoSeoBatchEnded =>
        /\ output # None
        /\ Len(output) = Len(account)
        /\ \A k \in 1..Len(account) :
               IF account[k].gh.reads
               THEN /\ "repository" \in DOMAIN output[k]
                    /\ output[k].repository = account[k].repo.name
               ELSE /\ "status" \in DOMAIN output[k]
                    /\ output[k].status = "error"

\* C18: no repository selected for a batch is skipped: when
\* run_optimization.main has gone through the selected repositories,
\* results holds exactly one entry for each of them, in order, a
\* repository whose fetch or optimization failed included.
C18_NoRepositorySkipped ==
    pc = "run_optimization.main: done" =>
        /\ Len(results) = Len(account)
        /\ \A k \in 1..Len(account) :
               \/ "status" \in DOMAIN results[k]
               \/ results[k].repository = account[k].repo.name

\* C19: in the result of SEOGenerator.optimize_repository, changes.topics
\* is true exactly when new_topics and current_topics differ as sets, and
\* changes.description and changes.readme are true exactly when the new and
\* the current strings differ.
C19_ChangesByValue ==
    (pc = "SEOGenerator.optimize_repository" /\ get_provider(provider, remote).raised = "") =>
        /\ result.raised = ""
        /\ result.value.changes.topics
               <=> (Range(result.value.new_topics) # Range(result.value.current_topics))
        /\ result.value.changes.description
               <=> (result.value.new_description # result.value.current_description)
        /\ result.value.changes.readme
               <=> (result.value.new_readme # result.value.current_readme)

\* the registered names
RegisteredNames == {PROVIDERS[k].name : k \in 1..Len(PROVIDERS)}

\* C20: get_provider matches names case-insensitively: a name that equals
\* a registered name up to the case of its letters has the outcome of that
\* registered name, and only the class registered under it is constructed.
\* For a name that is not registered get_provider constructs nothing and
\* raises a ValueError whose message names every registered provider.
C20_RegistryLookup ==
    pc = "get_provider" =>
        \A provider_name \in argv :
            IF str_lower(provider_name) \in RegisteredNames
            THEN /\ result = get_provider_by_name(str_lower(provider_name), remote)
                 /\ Len(result.constructed) = 1
                 /\ \E k \in 1..Len(PROVIDERS) :
                        /\ PROVIDERS[k].name = str_lower(provider_name)
                        /\ PROVIDERS[k].class = result.constructed[1]
                 /\ result.raised = "" => result.value = result.constructed[1]
            ELSE /\ result.raised = "ValueError"
                 /\ result.constructed = <<>>
                 /\ \A name \in RegisteredNames : str_contains(result.message, name)

\* get_provider("OpenAI") with the API key set has made an OpenAIProvider
C20_Witness ==
    /\ pc = "get_provider"
    /\ argv = { <<"O","p","e","n","A","I">> }
    /\ result.raised = ""
    /\ result.value = "openai"

(***************************************************************************)
(* Claims about the provider name, the local provider and the topics sent  *)
(***************************************************************************)
\* the run has ended with exit status 0
ExitedZero == pc \in {"repo_seo.main: done", "run_optimization.main: done"}

\* C21: an unknown provider name is a fatal configuration error: a run
\* started with a provider name that is not registered optimizes no
\* repository, issues no command, and does not end with exit status 0.
C21_UnknownProviderFatal ==
    provider \notin Providers =>
        /\ results = <<>>
        /\ calls = <<>>
        /\ ~ExitedZero

\* C22: list_available_providers never raises, returns exactly one entry
\* per registered provider, and marks a provider available exactly when
\* its constructor goes through, with a failure reason recorded for each
\* unavailable one.
C22_ListMarksConstructible ==
    pc = "list_available_providers" =>
        /\ result.raised = ""
        /\ Len(result.value) = Len(PROVIDERS)
        /\ \A k \in 1..Len(PROVIDERS) :
               /\ result.value[k].name = PROVIDERS[k].name
               /\ result.value[k].available
                      <=> (get_provider(PROVIDERS[k].class, remote).raised = "")
               /\ ~result.value[k].available => result.value[k].error # ""

(***************************************************************************)
(* SpecLocal: the methods of LocalProvider called for a repository whose   *)
(* README is absent (None) or empty                                        *)
(*   llm_providers/local_provider.py                                       *)
(***************************************************************************)
\* LocalProvider.generate_description(repo_name, languages, topics, readme)
\* for a readme that may be None: "if readme:" takes None as it takes ""
LocalProvider_generate_description_call(name, langs, tps, text) ==
    Returned(LocalProvider_generate_description(name, langs, tps,
                 IF text = None THEN EmptyStr ELSE text))

\* LocalProvider.generate_topics(repo_name, languages, current_topics,
\* readme) for a readme that may be None: the loop over common_topics
\* evaluates readme.lower()
LocalProvider_generate_topics_call(name, langs, current, text, seed) ==
    IF text = None THEN Raised("AttributeError")
    ELSE Returned(LocalProvider_generate_topics(name, langs, current, text, seed))

\* LocalProvider.analyze_readme(readme) for a readme that is None or "":
\* the dictionary of the "if not readme" branch
analyze_readme_without_readme ==
    [summary |-> EmptyStr, topics |-> <<>>, entities |-> <<>>,
     sentiment |-> <<"n","e","u","t","r","a","l">>, readability |-> <<"u","n","k","n","o","w","n">>,
     suggestions |-> << <<"A","d","d"," ","a"," ","R","E","A","D","M","E"," ","f","i","l","e"," ","t","o",
           " ","y","o","u","r"," ","r","e","p","o","s","i","t","o","r","y",".">> >>]

\* the README of a repository that has none: absent or empty
NoReadmes == {None, EmptyStr}

InitLocal ==
    /\ pc = "call"
    /\ topic = None
    /\ validated = None
    /\ revalidated = None
    /\ repo_name \in RepoNames
    /\ languages \in LanguageLists
    /\ current_topics \in CurrentTopicLists
    /\ current_description \in {EmptyStr} \cup ReadmeDescriptions
    /\ readme \in NoReadmes
    /\ provider = "local"
    /\ remote = NoReply
    /\ hash_seed \in HashSeeds
    /\ is_fork = FALSE
    /\ argv = {}
    /\ calls = <<>>
    /\ result = Returned(None)
    /\ NoBatch
    /\ NoObjects

\* LocalProvider().generate_description(repo_name, languages, current_topics, readme)
LocalCallGenerateDescription ==
    /\ pc = "call"
    /\ result' = LocalProvider_generate_description_call(repo_name, languages,
                                                         current_topics, readme)
    /\ pc' = "LocalProvider.generate_description"
    /\ UNCHANGED <<vars_validator, vars_call, vars_run, vars_batch, vars_objects>>

\* LocalProvider().generate_topics(repo_name, languages, current_topics, readme)
LocalCallGenerateTopics ==
    /\ pc = "call"
    /\ result' = LocalProvider_generate_topics_call(repo_name, languages,
                                                    current_topics, readme, hash_seed)
    /\ pc' = "LocalProvider.generate_topics"
    /\ UNCHANGED <<vars_validator, vars_call, vars_run, vars_batch, vars_objects>>

\* LocalProvider().analyze_readme(readme), the README being absent or empty
LocalCallAnalyzeReadme ==
    /\ pc = "call"
    /\ ~truthy(readme)
    /\ result' = Returned(analyze_readme_without_readme)
    /\ pc' = "LocalProvider.analyze_readme"
    /\ UNCHANGED <<vars_validator, vars_call, vars_run, vars_batch, vars_objects>>

\* LocalProvider().generate_readme(repo_name, languages, current_topics,
\*     current_description, readme)
LocalCallGenerateReadme ==
    /\ pc = "call"
    /\ result' = Returned(LocalProvider_generate_readme(repo_name, languages, current_topics,
                                                        current_description, readme))
    /\ pc' = "LocalProvider.generate_readme"
    /\ UNCHANGED <<vars_validator, vars_call, vars_run, vars_batch, vars_objects>>

NextLocal ==
    \/ LocalCallGenerateDescription
    \/ LocalCallGenerateTopics
    \/ LocalCallAnalyzeReadme
    \/ LocalCallGenerateReadme

SpecLocal == InitLocal /\ [][NextLocal]_vars

\* a method of LocalProvider has been called
LocalCalled ==
    pc \in {"LocalProvider.generate_description", "LocalProvider.generate_topics",
            "LocalProvider.analyze_readme", "LocalProvider.generate_readme"}

\* C23: LocalProvider never raises for absent or empty fields: called with
\* a README that is absent or empty (and with any language and topic list,
\* the empty ones included), generate_description, generate_topics,
\* analyze_readme and generate_readme each return a value.
C23_LocalNeverRaises ==
    (LocalCalled /\ ~truthy(readme)) => result.raised = ""

\* LocalProvider.generate_topics: the topics in the order in which the
\* statements of the method add them to the set: the current topics, the
\* name parts, the languages, the heading words, the common words and the
\* common GitHub topics
discovered_topics(name, langs, current, text) ==
    seq_dedupe(
        current
        \o SelectSeq(re_findall_alnum(str_lower(name)),
                     LAMBDA part : Len(part) > 2 /\ part \notin name_stopwords)
        \o Tuple([i \in 1..Len(langs) |-> str_lower(langs[i])])
        \o (IF text = EmptyStr THEN <<>>
            ELSE SelectSeq(heading_words(re_findall_headings(text, FALSE)),
                           LAMBDA word : Len(word) > 3 /\ word \notin readme_stopwords)
                 \o str_prefix(SelectSeq(most_common(re_findall_alnum(str_lower(text)), 20),
                                   LAMBDA word : Len(word) > 3 /\ word \notin readme_stopwords),
                               5))
        \o SelectSeq(common_topics,
                     LAMBDA t : t \in relevant_common_topics(text, current)))

\* the current topics first, in their given order, then the new topics in
\* discovery order until the list has limit entries
capped_in_discovery_order(current, discovered, limit) ==
    LET new == SelectSeq(discovered, LAMBDA t : t \notin Range(current))
    IN  IF Len(current) >= limit THEN current
        ELSE current \o str_prefix(new, limit - Len(current))

\* C24: LocalProvider.generate_topics retains every current topic in its
\* output, and when the cap applies (more than max_topics topics were
\* collected) the output is the current topics first, in their given
\* order, followed by the new topics in discovery order until the cap is
\* hit.
C24_CurrentFirstThenDiscovery ==
    pc = "LocalProvider.generate_topics" =>
        /\ Range(current_topics) \subseteq Range(result.value)
        /\ Len(discovered_topics(repo_name, languages, current_topics, readme))
               > LocalProvider_max_topics =>
                   result.value =
                       capped_in_discovery_order(current_topics,
                           discovered_topics(repo_name, languages, current_topics, readme),
                           LocalProvider_max_topics)

\* C25: for the repository name "my-cool-tool", the languages ["Python"],
\* no current topics and an empty README, LocalProvider.generate_topics
\* returns a list that includes "my", "cool", "tool" and "python".
C25_MyCoolToolTopics ==
    (/\ pc = "LocalProvider.generate_topics"
     /\ repo_name = <<"m","y","-","c","o","o","l","-","t","o","o","l">>
     /\ languages = << <<"P","y","t","h","o","n">> >>
     /\ current_topics = <<>>
     /\ readme = EmptyStr) =>
        { <<"m","y">>, <<"c","o","o","l">>, <<"t","o","o","l">>, <<"p","y","t","h","o","n">> } \subseteq Range(result.value)

(***************************************************************************)
(* SpecTwice: a method of LocalProvider called twice with the same         *)
(* arguments, in one process or in two runs of the program; results holds  *)
(* what the calls returned                                                 *)
(***************************************************************************)
InitTwice ==
    /\ pc = "call"
    /\ topic = None
    /\ validated = None
    /\ revalidated = None
    /\ repo_name \in RepoNames
    /\ languages \in LanguageLists
    /\ current_topics \in CurrentTopicLists
    /\ current_description = EmptyStr
    /\ readme \in Readmes
    /\ provider = "local"
    /\ remote = NoReply
    /\ hash_seed \in HashSeeds
    /\ is_fork = FALSE
    /\ argv = {}
    /\ calls = <<>>
    /\ result = Returned(None)
    /\ NoBatch
    /\ NoObjects

\* LocalProvider().generate_topics(repo_name, languages, current_topics,
\* readme), for the first time or once more
TwiceGenerateTopics ==
    /\ \/ pc = "call"
       \/ pc = "LocalProvider.generate_topics" /\ Len(results) < 2
    /\ result' = Returned(LocalProvider_generate_topics(repo_name, languages,
                                                        current_topics, readme, hash_seed))
    /\ results' = Append(results, result'.value)
    /\ pc' = "LocalProvider.generate_topics"
    /\ UNCHANGED <<vars_validator, vars_call, vars_run, account, position, output, vars_objects>>

\* LocalProvider().generate_description(repo_name, languages,
\* current_topics, readme), for the first time or once more
TwiceGenerateDescription ==
    /\ \/ pc = "call"
       \/ pc = "LocalProvider.generate_description" /\ Len(results) < 2
    /\ result' = Returned(LocalProvider_generate_description(repo_name, languages,
                                                             current_topics, readme))
    /\ results' = Append(results, result'.value)
    /\ pc' = "LocalProvider.generate_description"
    /\ UNCHANGED <<vars_validator, vars_call, vars_run, account, position, output, vars_objects>>

\* the program is started again between the two calls: the interpreter
\* draws the seed of its string hashes anew
NewProcess ==
    /\ Len(results) = 1
    /\ \E seed \in HashSeeds : hash_seed' = seed
    /\ UNCHANGED <<pc, vars_validator, repo_name, languages, current_topics,
                   current_description, readme, provider, remote, vars_run, result,
                   vars_batch, vars_objects>>

NextTwice ==
    \/ TwiceGenerateTopics
    \/ TwiceGenerateDescription
    \/ NewProcess

SpecTwice == InitTwice /\ [][NextTwice]_vars

\* C26: LocalProvider is deterministic: two calls of generate_topics, and
\* two calls of generate_description, with identical arguments return
\* identical results, the order of the topic list and the topics that
\* survive the cap included.
C26_LocalDeterministic ==
    Len(results) = 2 => results[1] = results[2]

\* the adapters of the remote backends
RemoteProviders == Providers \ {"local"}

\* C27: whatever the backend responds, the topic list a remote adapter's
\* generate_topics returns has no two entries that are equal ignoring case
\* and has at most 20 entries.
C27_RemoteTopicsDistinct ==
    (/\ pc = "provider.generate_topics"
     /\ provider \in RemoteProviders
     /\ result.raised = "") =>
        /\ Len(result.value) <= remote_max_topics
        /\ \A i, j \in 1..Len(result.value) :
               str_lower(result.value[i]) = str_lower(result.value[j]) => i = j

(***************************************************************************)
(* SpecOllama: OllamaProvider(model=...) generating against a backend that *)
(* reports its models                                                      *)
(*   llm_providers/ollama_provider.py  OllamaProvider._generate_completion *)
(***************************************************************************)
\* the ordered list of models tried in place of a missing one
common_models ==
    << <<"m","i","s","t","r","a","l",":","l","a","t","e","s","t">>, <<"l","l","a","m","a","2",":","l","a","t","e","s","t">>, <<"d","e","e","p","s","e","e","k","-","c","o","d","e","r">>,
       <<"d","e","e","p","s","e","e","k","-","r","1",":","7","b">>, <<"n","e","u","r","a","l","-","c","h","a","t">> >>

\* the common models the backend reports, in the order of common_models
alternative_models(available_models) ==
    SelectSeq(common_models, LAMBDA m : m \in Range(available_models))

\* the check of the model against GET /api/tags: the model to generate
\* with, or none. A null model list makes the check raise; the exception is
\* caught and the provider goes on with its model.
checked_model(current_model, reported) ==
    IF reported = None THEN [found |-> TRUE, model |-> current_model]
    ELSE IF current_model \in Range(reported) THEN [found |-> TRUE, model |-> current_model]
    ELSE IF alternative_models(reported) # <<>>
         THEN [found |-> TRUE, model |-> alternative_models(reported)[1]]
    ELSE IF reported # <<>> THEN [found |-> TRUE, model |-> reported[1]]
    ELSE [found |-> FALSE, model |-> current_model]

\* "Error: Model '...' not found and no alternatives available."
model_not_found(current_model) ==
    <<"E","r","r","o","r",":"," ","M","o","d","e","l"," ","'">> \o current_model \o <<"'"," ","n","o","t"," ","f","o","u","n","d"," ","a","n","d"," ","n","o"," ","a",
          "l","t","e","r","n","a","t","i","v","e","s"," ","a","v","a","i","l","a","b","l",
          "e",".">>

\* _generate_completion once the tags request has been answered with
\* status 200: the model of the provider afterwards, the generate requests
\* sent and the text returned
completion_with_model(checked, backend) ==
    IF checked.found
    THEN [model |-> checked.model, requests |-> <<checked.model>>,
          text |-> OllamaProvider_generate_completion(backend)]
    ELSE [model |-> checked.model, requests |-> <<>>,
          text |-> model_not_found(checked.model)]

\* OllamaProvider._generate_completion for a provider with the model: a
\* status other than 200 of the tags request is answered at once; a refused
\* connection or a timeout of the tags request is caught and met again by
\* the generate request
OllamaProvider_complete(current_model, backend) ==
    IF backend.error = "status"
    THEN [model |-> current_model, requests |-> <<>>,
          text |-> OllamaProvider_generate_completion(backend)]
    ELSE IF backend.error # ""
    THEN [model |-> current_model, requests |-> <<current_model>>,
          text |-> OllamaProvider_generate_completion(backend)]
    ELSE completion_with_model(checked_model(current_model, backend.models), backend)

\* number of calls made on one provider
MaxCalls == 2

\* the model given to the constructor: its default, or another
ConfiguredModels == { <<"m","i","s","t","r","a","l",":","l","a","t","e","s","t">>, <<"c","o","d","e","l","l","a","m","a">> }

\* the model lists GET /api/tags reports: null, empty, the configured
\* model among others, models of the fallback list, unknown models only
ReportedModels ==
    { None,
      <<>>,
      << <<"p","h","i">>, <<"c","o","d","e","l","l","a","m","a">>, <<"m","i","s","t","r","a","l",":","l","a","t","e","s","t">> >>,
      << <<"p","h","i">>, <<"n","e","u","r","a","l","-","c","h","a","t">>, <<"l","l","a","m","a","2",":","l","a","t","e","s","t">> >>,
      << <<"p","h","i">>, <<"g","e","m","m","a">> >>,
      << <<"d","e","e","p","s","e","e","k","-","c","o","d","e","r">> >> }

\* the backend: it answers every request, or fails every request
OllamaBackends ==
    { [api_key |-> FALSE, fails |-> FALSE, error |-> "", text |-> <<" ","T","o","o","l","s"," ","f","o","r"," ","S","E","O"," ">>,
       models |-> ms] : ms \in ReportedModels }
    \cup { [api_key |-> FALSE, fails |-> TRUE, error |-> e, text |-> EmptyStr,
            models |-> <<>>] : e \in TransportErrors }

InitOllama ==
    /\ pc = "call"
    /\ topic = None
    /\ validated = None
    /\ revalidated = None
    /\ repo_name \in RunRepoNames
    /\ languages = <<>>
    /\ current_topics \in RunTopicLists
    /\ current_description = EmptyStr
    /\ readme = EmptyStr
    /\ provider = "ollama"
    /\ remote \in OllamaBackends
    /\ hash_seed \in HashSeeds
    /\ is_fork = FALSE
    /\ \E configured \in ConfiguredModels : argv = {configured} /\ model = configured
    /\ calls = <<>>
    /\ result = Returned(None)
    /\ NoBatch
    /\ requests = <<>>
    /\ hooks = <<>>

\* a call of _generate_completion has run: the provider keeps the model,
\* the requests sent are logged and the value returned is kept
OllamaCompleted(run, returned, at) ==
    /\ model' = run.model
    /\ requests' = requests \o run.requests
    /\ result' = Returned(returned)
    /\ results' = Append(results, returned)
    /\ pc' = at
    /\ UNCHANGED <<vars_validator, vars_call, vars_run, account, position, output, hooks>>

\* provider.generate_description(repo_name, languages, current_topics, readme)
OllamaGenerateDescription ==
    /\ Len(results) < MaxCalls
    /\ \E run \in {OllamaProvider_complete(model, remote)} :
           OllamaCompleted(run, description_cut(run.text, completion_max_length),
                           "OllamaProvider.generate_description")

\* provider.generate_topics(repo_name, languages, current_topics, readme)
OllamaGenerateTopics ==
    /\ Len(results) < MaxCalls
    /\ \E run \in {OllamaProvider_complete(model, remote)} :
           OllamaCompleted(run, completion_topics(run.text, current_topics, hash_seed),
                           "OllamaProvider.generate_topics")

NextOllama ==
    \/ OllamaGenerateDescription
    \/ OllamaGenerateTopics

SpecOllama == InitOllama /\ [][NextOllama]_vars

\* the models GET /api/tags reported
Reported == IF remote.models = None THEN <<>> ELSE remote.models

\* the model the provider was constructed with
Configured == CHOOSE configured \in argv : TRUE

\* the model the claim names for a configured model that is not reported
FallbackModel ==
    IF alternative_models(Reported) # <<>> THEN alternative_models(Reported)[1]
    ELSE Reported[1]

\* C28: when the configured Ollama model is not in the model list the
\* backend reports, the first call of the adapter uses the first name of
\* its ordered fallback list that the backend reports, otherwise the first
\* model the backend reports; if the backend reports no models it sends no
\* generate request and fails with a descriptive error (raised, or at
\* least returned as the message).
C28_OllamaModelFallback ==
    (/\ Len(results) = 1
     /\ remote.error = ""
     /\ Configured \notin Range(Reported)) =>
        IF Reported = <<>>
        THEN /\ requests = <<>>
             /\ pc = "OllamaProvider.generate_description" => FailureMessage(result.value)
        ELSE requests = <<FallbackModel>>

(***************************************************************************)
(* SpecTopics: update_repo_topics(username, repo_name, topics) applied to  *)
(* bounded lists; current_topics holds the list given as topics            *)
(*   repo_seo.py  update_repo_topics                                       *)
(***************************************************************************)
\* the PUT of the topics: the names of its JSON body and whether gh
\* succeeded
TopicsPut(names, ok) == [op |-> "update_topics", ok |-> ok, names |-> names]

\* update_repo_topics for a list of strings and None values: the filtered
\* entries are joined for the warning, which raises TypeError when one of
\* them is None; otherwise the names are sent and the success of gh is
\* returned
update_repo_topics_call(tps, ok) ==
    IF \E i \in 1..Len(tps) : tps[i] = None
    THEN [outcome |-> Raised("TypeError"), calls |-> <<>>]
    ELSE [outcome |-> Returned(ok), calls |-> <<TopicsPut(update_repo_topics(tps), ok)>>]

\* entries put before and after a list of valid topics: spellings of one
\* topic, invalid texts, the empty string, None
ExtraTopics ==
    { <<>>,
      << <<"T","1">> >>,
      << <<"c","+","+">>, <<"C">> >>,
      << <<"!">>, EmptyStr >>,
      << <<"M","a","c","h","i","n","e"," ","L","e","a","r","n","i","n","g">>, <<"m","a","c","h","i","n","e","_","l","e","a","r","n","i","n","g">> >>,
      << <<"a",",","b">>, <<"z","z">> >>,
      << None >> }

\* the lists given: valid topics up to and beyond the limit of GitHub,
\* with extra entries before and after them
TopicsGiven ==
    { pre \o TopicList(n) \o post :
          pre \in ExtraTopics, post \in ExtraTopics,
          n \in {0, 1, GitHubMaxTopics - 1, GitHubMaxTopics, GitHubMaxTopics + 1} }

InitTopics ==
    /\ pc = "call"
    /\ topic = None
    /\ validated = None
    /\ revalidated = None
    /\ repo_name \in RunRepoNames
    /\ languages = <<>>
    /\ current_topics \in TopicsGiven
    /\ current_description = EmptyStr
    /\ readme = EmptyStr
    /\ provider = "local"
    /\ remote = NoReply
    /\ hash_seed = "ascending"
    /\ is_fork = FALSE
    /\ argv = {}
    /\ calls = <<>>
    /\ result = Returned(None)
    /\ NoBatch
    /\ NoObjects

\* update_repo_topics(username, repo_name, current_topics), gh succeeding
\* or not
UpdateRepoTopics ==
    /\ pc = "call"
    /\ \E ok \in BOOLEAN :
           \E run \in {update_repo_topics_call(current_topics, ok)} :
               /\ result' = run.outcome
               /\ calls' = calls \o run.calls
    /\ pc' = "update_repo_topics"
    /\ UNCHANGED <<vars_validator, vars_call, is_fork, argv, vars_batch, vars_objects>>

NextTopics == UpdateRepoTopics

SpecTopics == InitTopics /\ [][NextTopics]_vars

\* the names of the last PUT of the topics
SentTopics == calls[Len(calls)].names

\* the place of the first entry of the list given that validates to name
FirstGiven(name) ==
    SetMin({i \in 1..Len(current_topics) : validate_github_topic(current_topics[i]) = name})

\* C29: the topic list update_repo_topics sends to GitHub consists only of
\* non-empty results of validate_github_topic for entries of the list
\* given, has no duplicates, has at most 20 entries, and keeps the order in
\* which its topics first occur in the list given.
C29_SentTopicsClean ==
    (pc = "update_repo_topics" /\ calls # <<>>) =>
        /\ \A k \in 1..Len(SentTopics) :
               /\ SentTopics[k] # EmptyStr
               /\ \E i \in 1..Len(current_topics) :
                      validate_github_topic(current_topics[i]) = SentTopics[k]
        /\ \A j, k \in 1..Len(SentTopics) : SentTopics[j] = SentTopics[k] => j = k
        /\ Len(SentTopics) <= 20
        /\ \A j, k \in 1..Len(SentTopics) :
               j < k => FirstGiven(SentTopics[j]) < FirstGiven(SentTopics[k])

\* a list of more than 20 valid topics that begins with another spelling
\* of one of them and ends with invalid entries was given, and 20 names
\* were sent, "t1" first
C29_Witness ==
    /\ pc = "update_repo_topics"
    /\ calls # <<>>
    /\ Len(current_topics) = GitHubMaxTopics + 4
    /\ current_topics[1] = <<"T","1">>
    /\ current_topics[Len(current_topics)] = EmptyStr
    /\ Len(SentTopics) = 20
    /\ SentTopics[1] = <<"t","1">>
    /\ SentTopics[20] = <<"t","2","0">>

(***************************************************************************)
(* SpecHooks: the hook operations of RepoManager on the hooks directory of *)
(* a repository; calls is the log of the operations made                   *)
(*   repo_manager.py  list_hooks, install_hook, remove_hook, enable_hook,  *)
(*                    disable_hook                                         *)
(***************************************************************************)
\* number of hook operations made on one repository
MaxOps == 4

\* the hooks operated on, among the names list_hooks knows
HookNames == {"pre-commit", "post-commit"}

\* f"{hook_path}.sample"
sample_path(hook_name) ==
    IF hook_name = "pre-commit" THEN "pre-commit.sample" ELSE "post-commit.sample"

\* the files of the hooks directory that the operations look at
HookFiles == HookNames \cup {sample_path(h) : h \in HookNames}

\* a file of the hooks directory: its content and whether its mode has the
\* execute bits (0o755) or not (0o644); a path without a file
HookFile(content, executable) == [content |-> content, executable |-> executable]

Absent == [content |-> "", executable |-> FALSE, absent |-> TRUE]

\* os.path.exists(path)
path_exists(dir, path) == dir[path] # Absent

\* list_hooks: the entry of one hook
hook_info(dir, hook_name) ==
    IF path_exists(dir, hook_name)
    THEN [exists |-> TRUE, executable |-> dir[hook_name].executable,
          enabled |-> dir[hook_name].executable]
    ELSE [exists |-> FALSE, executable |-> FALSE, enabled |-> FALSE]

\* list_hooks()
list_hooks(dir) == [h \in HookNames |-> hook_info(dir, h)]

\* install_hook(hook_name, content): the script is written and made
\* executable
install_hook(dir, hook_name, content) ==
    [dir |-> [dir EXCEPT ![hook_name] = HookFile(content, TRUE)], returned |-> TRUE]

\* remove_hook(hook_name)
remove_hook(dir, hook_name) ==
    IF path_exists(dir, hook_name)
    THEN [dir |-> [dir EXCEPT ![hook_name] = Absent], returned |-> TRUE]
    ELSE [dir |-> dir, returned |-> FALSE]

\* enable_hook(hook_name): the sample is copied over the hook when there is
\* a sample, otherwise the hook is made executable
enable_hook(dir, hook_name) ==
    IF path_exists(dir, sample_path(hook_name))
    THEN [dir |-> [dir EXCEPT ![hook_name] =
                       HookFile(dir[sample_path(hook_name)].content, TRUE)],
          returned |-> TRUE]
    ELSE IF path_exists(dir, hook_name)
    THEN [dir |-> [dir EXCEPT ![hook_name].executable = TRUE], returned |-> TRUE]
    ELSE [dir |-> dir, returned |-> FALSE]

\* disable_hook(hook_name): the execute bits are taken away
disable_hook(dir, hook_name) ==
    IF path_exists(dir, hook_name)
    THEN [dir |-> [dir EXCEPT ![hook_name].executable = FALSE], returned |-> TRUE]
    ELSE [dir |-> dir, returned |-> FALSE]

\* the scripts a user installs
HookScripts == {"#!/bin/sh echo mine"}

\* the hooks directory after git init: the samples of the template, which
\* has one for pre-commit and none for post-commit, or no samples
HookDirs ==
    { [f \in HookFiles |-> IF f \in samples THEN HookFile("# sample", TRUE) ELSE Absent] :
          samples \in {{}, {"pre-commit.sample"}} }

InitHooks ==
    /\ pc = "call"
    /\ topic = None
    /\ validated = None
    /\ revalidated = None
    /\ repo_name = EmptyStr
    /\ languages = <<>>
    /\ current_topics = <<>>
    /\ current_description = EmptyStr
    /\ readme = EmptyStr
    /\ provider = "local"
    /\ remote = NoReply
    /\ hash_seed = "ascending"
    /\ is_fork = FALSE
    /\ argv = {}
    /\ calls = <<>>
    /\ result = Returned(None)
    /\ NoBatch
    /\ model = None
    /\ requests = <<>>
    /\ hooks \in HookDirs

\* an operation on a hook has run: the directory it leaves, the value it
\* returned and the entry of the log
HookOperated(op, hook_name, content, run) ==
    /\ hooks' = run.dir
    /\ result' = Returned(run.returned)
    /\ calls' = Append(calls, [op |-> op, ok |-> run.returned, hook |-> hook_name,
                               content |-> content])
    /\ argv' = {hook_name}
    /\ pc' = op
    /\ UNCHANGED <<vars_validator, vars_call, is_fork, vars_batch, model, requests>>

InstallHook ==
    /\ Len(calls) < MaxOps
    /\ \E h \in HookNames, content \in HookScripts :
           HookOperated("install_hook", h, content, install_hook(hooks, h, content))

RemoveHook ==
    /\ Len(calls) < MaxOps
    /\ \E h \in HookNames : HookOperated("remove_hook", h, "", remove_hook(hooks, h))

EnableHook ==
    /\ Len(calls) < MaxOps
    /\ \E h \in HookNames : HookOperated("enable_hook", h, "", enable_hook(hooks, h))

DisableHook ==
    /\ Len(calls) < MaxOps
    /\ \E h \in HookNames : HookOperated("disable_hook", h, "", disable_hook(hooks, h))

\* list_hooks(): nothing changes
ListHooks ==
    /\ pc # "list_hooks"
    /\ result' = Returned(list_hooks(hooks))
    /\ pc' = "list_hooks"
    /\ UNCHANGED <<vars_validator, vars_call, vars_run, vars_batch, vars_objects>>

NextHooks ==
    \/ InstallHook
    \/ RemoveHook
    \/ EnableHook
    \/ DisableHook
    \/ ListHooks

SpecHooks == InitHooks /\ [][NextHooks]_vars

\* the places of the log, up to n, where the hook was installed and not
\* removed afterwards
Installs(hook_name, n) ==
    {i \in 1..n :
        /\ calls[i].op = "install_hook"
        /\ calls[i].hook = hook_name
        /\ \A j \in (i + 1)..n : ~(calls[j].op = "remove_hook" /\ calls[j].hook = hook_name)}

\* the last operation of the log is enable_hook or disable_hook on a hook
\* that was installed before
ToggledInstalled ==
    /\ calls # <<>>
    /\ calls[Len(calls)].op \in {"enable_hook", "disable_hook"}
    /\ Installs(calls[Len(calls)].hook, Len(calls) - 1) # {}

\* C30: enabling and disabling a git hook only toggles whether it is
\* enabled: after disable_hook on an installed hook list_hooks reports it
\* not enabled, after enable_hook it reports it enabled, and after either
\* the hook script still has the content it was installed with.
C30_HookToggleKeepsScript ==
    ToggledInstalled =>
        /\ list_hooks(hooks)[calls[Len(calls)].hook].enabled
               = (calls[Len(calls)].op = "enable_hook")
        /\ hooks[calls[Len(calls)].hook].content
               = calls[SetMax(Installs(calls[Len(calls)].hook, Len(calls) - 1))].content

====
